---- MODULE Spec2Model ----
(***************************************************************************)
(* Phone-usage session tracking of PhoneDetection-Classroom.               *)
(*                                                                         *)
(* PhoneDetector (src/detector.py) turns the phone boxes of each frame    *)
(* into usage sessions: greedy association of boxes to open sessions,      *)
(* duration accounting across detector gaps, a one-shot alert and a JSONL  *)
(* audit trail.  The Flask layer (src/app.py) runs PhoneDetector.detect    *)
(* from the generator that serves /video_feed.                             *)
(* The second application (src/src) classifies tracked detections as       *)
(* calculator or phone in VideoCamera.get_frame, with a per-track glare    *)
(* latch.                                                                  *)
(*                                                                         *)
(* Time is counted in ticks of 1/16 s (TicksPerSecond = 16): a binary      *)
(* fraction, so that the differences and sums of time stamps the code      *)
(* computes in floating point are exact on the model's times and integer   *)
(* arithmetic on ticks gives what the code gives.  Boxes are integer pixel *)
(* tuples <<x1, y1, x2, y2>>.  Ratios the code computes in floating point  *)
(* (IoU, relative area change) are kept as exact fractions <<num, den>>    *)
(* and compared by cross-multiplication; the centroid distance is compared *)
(* through its square.                                                     *)
(***************************************************************************)
EXTENDS Integers, Sequences, FiniteSets, TLC

(***************************************************************************)
(* Bounds of the model.                                                    *)
(***************************************************************************)
\* last value of the wall clock, in ticks
MaxTime == 6
\* most phone boxes the detector reports in one frame
MaxDet == 2
\* last session id that is handed out
MaxId == 2
\* most sessions open when _match_boxes_to_sessions is studied on its own
MaxOpen == 3
\* clients of /video_feed
MaxViewers == 2
\* the /start_detection and /stop_detection requests that are followed, and
\* the frames the sources give in all
MaxStarts == 1
MaxStops == 1
MaxReads == 2
\* last track identifier the tracker hands out
MaxTrack == 1
\* most detections the tracker reports in one frame of the camera
MaxCamDet == 2
\* last value of the frames counter of a track that is followed
MaxFrames == 2
\* the time, in ticks, at which a session that has been open for seconds is
\* picked up, and for how many ticks it is followed from there
LateStart == 100
MaxLate == 4

(***************************************************************************)
(* Construction-time parameters of PhoneDetector, in ticks.                *)
(***************************************************************************)
TicksPerSecond == 16
\* gap_tolerance_sec, instantiated at 0.125 s (the default is 0.1 s)
gap_tolerance_sec == 2
\* alert_threshold_sec, instantiated at 0.125 s so that a run reaches it
alert_threshold_sec == 2

\* Python's None, for a detection that matched no session
None == 0

(***************************************************************************)
(* Phone boxes the detection model may report.                             *)
(*   BoxP, BoxP2: IoU 0.905, same area, centres 20 px apart;               *)
(*   BoxP2, BoxP3: IoU 0.667, centres exactly 80 px apart (distance gate   *)
(*   passes); BoxP, BoxP3: IoU 0.6, centres 100 px apart (gate rejects);   *)
(*   BoxQ contains BoxP and is 1.5 times its area: the relative area       *)
(*   change is 0.5 from BoxP to BoxQ (size gate rejects) and 0.33 from     *)
(*   BoxQ to BoxP (passes);                                                *)
(*   BoxF: IoU below 0.30 with BoxP, BoxP2 and BoxQ (IoU gate rejects),    *)
(*   IoU 0.33 with BoxP3 but centres 200 px apart;                         *)
(*   BoxR contains BoxP and is 1.4 times its area: the relative area       *)
(*   change from BoxP to BoxR is exactly 0.40 (size gate passes);          *)
(*   BoxI: IoU exactly 0.30 with BoxP (IoU gate passes), relative area     *)
(*   change 0.375 from BoxP, centres 75.1 px apart.                        *)
(***************************************************************************)
BoxP == <<0, 0, 400, 10>>
BoxP2 == <<20, 0, 420, 10>>
BoxP3 == <<100, 0, 500, 10>>
BoxQ == <<0, 0, 400, 15>>
BoxF == <<300, 0, 700, 10>>
BoxR == <<0, 0, 400, 14>>
BoxI == <<0, 4, 250, 14>>
Boxes == {BoxP, BoxP2, BoxP3, BoxQ, BoxF, BoxR, BoxI}

\* the lists of phone boxes _match_boxes_to_sessions is studied on
MatchFrames == UNION {[1..n -> Boxes] : n \in 0..MaxDet}

\* the phones of the scene whose frames detect is fed with: two boxes that
\* pass the gates against each other and one that passes against neither
SceneBoxes == {BoxP, BoxP2, BoxF}

\* the lists of phone boxes of one frame
Frames == UNION {[1..n -> SceneBoxes] : n \in 0..MaxDet}

VARIABLES
    clock,            \* time.time(), in ticks
    active_sessions,  \* self.active_sessions: session id -> session_info
    next_session_id,  \* self.next_session_id
    log,              \* the lines appended to the JSONL audit log
    now,              \* detect: now of the last call (-1: no call yet)
    phone_boxes,      \* detect: phone_boxes of the last call
    mapping,          \* detect: mapping of the last call
    seen_session_ids, \* detect: seen_session_ids of the last call
    raised,           \* TRUE when the last call of detect ended in an exception
    at_entry,         \* the detector's fields when the last call of detect began
    current_source,   \* app.py: the global current_source: "none", "open",
                      \* "released" or "unopened"
    pc,               \* app.py: where the thread of each /video_feed request is
    t_now,            \* detect: now of the call each thread is in
    t_frame,          \* generate_frames: the phone boxes of the frame each thread read
    single_viewer,    \* the detector's fields had the frames read so far been
                      \* processed one after the other, each at the time its
                      \* call of detect began
    video_camera,     \* src/src/app.py: the global video_camera, None or a camera
    camera,           \* src/src/app.py: the camera gen of each client was given
    toggle_camera,    \* src/src/app.py: the camera of the /toggle_pause request
    track_history,    \* camera.py: self.track_history of each camera,
                      \* id -> glare_seen, frames
    paused,           \* camera.py: self.paused of each camera
    last_frame,       \* camera.py: self.last_frame of each camera, <<>> for
                      \* None, else <<labels>>
    called,           \* the camera of the last call of get_frame
    detections,       \* get_frame: detections of the last frame processed
    returned,         \* get_frame: what the last call returned
    history_at_entry, \* self.track_history when the last call of get_frame began
    shiny_before,     \* the ids evaluated with glare before the last call
    shiny_ever,       \* the ids each camera evaluated with glare so far
    reads,            \* get_frame: success of each self.video.read() of the
                      \* last call, in order
    cam_pc,           \* src/src/app.py: where the thread of each client is in
                      \* video_feed, gen and get_frame
    t_get_frame,      \* get_frame: the locals of the call each thread is in
    toggle_pc,        \* src/src/app.py: where the thread of a /toggle_pause
                      \* request is
    track_entries,    \* camera.py threads: the dict self.track_history of
                      \* each camera, id -> entry object
    track_heap,       \* camera.py threads: the entry objects of each camera,
                      \* by identity
    source_type,      \* app.py: the global current_source_type
    stop_pc,          \* app.py: where the thread of a /stop_detection request is
    t_success,        \* generate_frames: success of the last read of each thread
    start_pc,         \* app.py: where the thread of a /start_detection request
                      \* is: "idle", or the type it has still to assign
    bad_call,         \* the last call generate_frames made on a source that
                      \* was None or released: <<method, state of the source>>
    entries,          \* app.py threads: the entries of the dict
                      \* self.active_sessions, [sid, obj] in insertion order
    heap,             \* app.py threads: the session_info objects, by identity
    t_detect,         \* detect: the locals of the call each thread is in
    served,           \* the /start_detection requests, the /stop_detection
                      \* requests and the frames read so far
    raw_box,          \* get_frame: the box of a detection as the tracker gave it
    roi               \* get_frame: <<width, height>> of the region measured for
                      \* raw_box, <<>> when none was measured

detector_vars == <<active_sessions, next_session_id, log, now, phone_boxes,
                   mapping, seen_session_ids, raised, at_entry>>
web_vars == <<current_source, pc, t_now, t_frame, single_viewer>>
\* the fields of the cameras, the references to the cameras, and what is
\* recorded of the last call of get_frame
cam_fields == <<paused, last_frame, track_history, track_entries, track_heap,
               shiny_ever>>
cam_refs == <<video_camera, camera, toggle_camera>>
cam_call == <<detections, returned, reads, history_at_entry, shiny_before,
             called>>
camera_vars == <<cam_fields, cam_refs, cam_call, cam_pc, t_get_frame,
                 toggle_pc>>
loop_vars == <<source_type, start_pc, stop_pc, t_success, bad_call, entries,
              heap, t_detect, served, raw_box, roi>>
vars == <<clock, detector_vars, web_vars, camera_vars, loop_vars>>

Viewers == 1..MaxViewers

\* the VideoCamera objects get_camera may build: one on the thread of each
\* client of /video_feed, one on the thread of /toggle_pause
ToggleCamera == MaxViewers + 1
Cameras == 1..ToggleCamera

\* the locals of a call of get_frame: detections, the index i of the
\* detection at hand, the labels drawn so far, success of each read, the
\* entry of track_history and the counter the statement at hand has loaded
NoCamLocals ==
    [dets |-> <<>>, i |-> 0, labels |-> <<>>, reads |-> <<>>, ref |-> 0,
     tmp |-> 0]

\* no thread is inside get_frame: each is outside a request, in get_camera,
\* or in gen between two calls
CamIdle ==
    \A v \in Viewers :
        cam_pc[v] \in {"out", "camera_build", "camera_load", "idle", "continue"}

\* the locals of a call of detect: mapping, the index i of the detection,
\* used_sessions, <<best_sid, best_score>>, the iterator of the loop the
\* thread is in, the sid and the sinfo of the item at hand, elapsed_gap,
\* the value loaded by the statement at hand, seen_session_ids and what is
\* left of list(self.active_sessions.items())
NoIter == [pos |-> 0, used |-> 0, len |-> 0]
NoLocals ==
    [map |-> <<>>, i |-> 0, used |-> {}, best |-> <<None, <<0, 1>>>>,
     it |-> NoIter, sid |-> 0, obj |-> 0, gap |-> 0, tmp |-> 0,
     flag |-> FALSE, seen |-> {}, items |-> <<>>]

(***************************************************************************)
(* Geometry.                                                               *)
(***************************************************************************)
Max(a, b) == IF a >= b THEN a ELSE b
Min(a, b) == IF a <= b THEN a ELSE b
Abs(a) == IF a >= 0 THEN a ELSE -a

\* a < b for fractions <<num, den>> with positive denominators
FracLess(a, b) == a[1] * b[2] < b[1] * a[2]

\* iou(boxA, boxB) as the fraction interArea / denom; 0.0 when denom = 0
iou(boxA, boxB) ==
    LET xA == Max(boxA[1], boxB[1])
        yA == Max(boxA[2], boxB[2])
        xB == Min(boxA[3], boxB[3])
        yB == Min(boxA[4], boxB[4])
        interW == Max(0, xB - xA)
        interH == Max(0, yB - yA)
        interArea == interW * interH
        boxAArea == (boxA[3] - boxA[1]) * (boxA[4] - boxA[2])
        boxBArea == (boxB[3] - boxB[1]) * (boxB[4] - boxB[2])
        denom == boxAArea + boxBArea - interArea
    IN  IF denom = 0 THEN <<0, 1>> ELSE <<interArea, denom>>

\* box_center(box), doubled: <<x1 + x2, y1 + y2>>
box_center(box) == <<box[1] + box[3], box[2] + box[4]>>

\* box_area(box)
box_area(box) == Max(1, (box[3] - box[1]) * (box[4] - box[2]))

\* RULE 1: iou_val < 0.30 rejects
Rule1RejectsAtBoundary(new_box, old_box) ==
    ~FracLess(<<3, 10>>, iou(new_box, old_box))
Rule1Rejects(new_box, old_box) == FracLess(iou(new_box, old_box), <<3, 10>>)

\* RULE 2: size_change = |new_area - old_area| / old_area > 0.40 rejects
Rule2Rejects(new_box, old_box) ==
    FracLess(<<4, 10>>,
             <<Abs(box_area(new_box) - box_area(old_box)), box_area(old_box)>>)

\* RULE 3: dist > 80 rejects (doubled centres: squared distance > 160^2)
Rule3Rejects(new_box, old_box) ==
    LET dx == box_center(new_box)[1] - box_center(old_box)[1]
        dy == box_center(new_box)[2] - box_center(old_box)[2]
    IN  dx * dx + dy * dy > 160 * 160

\* the three gates of the inner loop of _match_boxes_to_sessions
Eligible(new_box, old_box) ==
    /\ ~Rule1Rejects(new_box, old_box)
    /\ ~Rule2Rejects(new_box, old_box)
    /\ ~Rule3Rejects(new_box, old_box)

(***************************************************************************)
(* _match_boxes_to_sessions.                                               *)
(***************************************************************************)
SetMin(S) == CHOOSE x \in S : \A y \in S : x <= y

\* a dict is iterated in insertion order; ids are inserted in increasing order
RECURSIVE DictOrder(_)
DictOrder(S) ==
    IF S = {} THEN <<>> ELSE <<SetMin(S)>> \o DictOrder(S \ {SetMin(S)})

\* "if sid in used_sessions: continue"
ClaimedNever(sid, used_sessions) == FALSE
Claimed(sid, used_sessions) == sid \in used_sessions

\* the inner loop over self.active_sessions.items(), from position k on,
\* with best = <<best_sid, best_score>>
RECURSIVE ScanSessions(_, _, _, _, _, _)
ScanSessions(sessions, order, used_sessions, new_box, k, best) ==
    IF k > Len(order) THEN best[1]
    ELSE LET sid == order[k]
             old_box == sessions[sid].box
             iou_val == iou(new_box, old_box)
         IN  IF \/ Claimed(sid, used_sessions)
                \/ ~Eligible(new_box, old_box)
                \/ ~FracLess(best[2], iou_val)
             THEN ScanSessions(sessions, order, used_sessions, new_box, k + 1, best)
             ELSE ScanSessions(sessions, order, used_sessions, new_box, k + 1,
                               <<sid, iou_val>>)

\* the outer loop over detected_boxes, from detection i on
RECURSIVE MatchFrom(_, _, _, _, _)
MatchFrom(sessions, detected_boxes, i, used_sessions, acc) ==
    IF i > Len(detected_boxes) THEN acc
    ELSE LET best_sid == ScanSessions(sessions, DictOrder(DOMAIN sessions),
                                      used_sessions, detected_boxes[i], 1,
                                      <<None, <<0, 1>>>>)
         IN  MatchFrom(sessions, detected_boxes, i + 1,
                       IF best_sid # None THEN used_sessions \cup {best_sid}
                                          ELSE used_sessions,
                       [acc EXCEPT ![i] = best_sid])

\* the detections taken in reverse input order
match_boxes_reversed(sessions, detected_boxes) ==
    LET n == Len(detected_boxes)
        rev == [i \in 1..n |-> detected_boxes[n + 1 - i]]
        m == MatchFrom(sessions, rev, 1, {}, [i \in 1..n |-> None])
    IN  [i \in 1..n |-> m[n + 1 - i]]

\* mapping: detection index -> session id or None
match_boxes_to_sessions(sessions, detected_boxes) ==
    MatchFrom(sessions, detected_boxes, 1, {},
              [i \in 1..Len(detected_boxes) |-> None])

(***************************************************************************)
(* PhoneDetector.detect.  A call is evaluated on a record st of the fields *)
(* it mutates; fail is the number of the call of _log_event whose write    *)
(* raises (0: every write succeeds).  An exception leaves detect at once,  *)
(* with the mutations made so far in place.                                *)
(***************************************************************************)
\* int(duration) of a duration in ticks, in whole seconds: int() truncates
\* toward zero, so that a negative duration is rounded up
DurationSeconds(accumulated) ==
    IF accumulated >= 0 THEN accumulated \div TicksPerSecond
    ELSE -((-accumulated) \div TicksPerSecond)

\* _log_event: append one line, or raise when the write fails
log_event(st, fail, entry) ==
    IF st.writes + 1 = fail
    THEN [st EXCEPT !.writes = @ + 1, !.raised = TRUE]
    ELSE [st EXCEPT !.writes = @ + 1, !.log = Append(@, entry)]

\* "elapsed_gap = now - sinfo['last_seen_ts']"
elapsed_gap_since_start(t, sinfo) == t - sinfo.start_ts
elapsed_gap_of(t, sinfo) == t - sinfo.last_seen_ts

\* "if elapsed_gap <= self.gap_tolerance_sec": the gap is added to accumulated
BridgedStrict(gap) == gap < gap_tolerance_sec
Bridged(gap) == gap <= gap_tolerance_sec

\* "self.next_session_id += 1"
NoIncrement(next) == next
IncrementId(next) == next + 1

\* "sinfo['last_seen_ts'] = now", whatever the gap was
last_seen_if_bridged(t, sinfo) ==
    IF Bridged(t - sinfo.last_seen_ts) THEN t ELSE sinfo.last_seen_ts
last_seen_after(t, sinfo) == t

\* "sid = mapping[i]", the mapping having been computed once before the loop
session_matched_late(st, boxes, map, i) ==
    match_boxes_to_sessions(st.sessions, <<boxes[i]>>)[1]
session_of(st, boxes, map, i) == map[i]

\* the body of the loop over phone_boxes for detection i
ProcessDetection(st, fail, boxes, map, t, i) ==
    LET box == boxes[i]
        sid == session_of(st, boxes, map, i)
    IN  IF sid # None
        THEN LET sinfo == st.sessions[sid]
                 elapsed_gap == elapsed_gap_of(t, sinfo)
                 updated == [sinfo EXCEPT
                     !.box = box,
                     !.accumulated = IF Bridged(elapsed_gap)
                                     THEN @ + elapsed_gap ELSE @,
                     !.last_seen_ts = last_seen_after(t, sinfo)]
             IN  [st EXCEPT !.sessions = [@ EXCEPT ![sid] = updated],
                            !.seen = @ \cup {sid}]
        ELSE LET new_sid == st.next
                 sinfo == [box |-> box, start_ts |-> t, last_seen_ts |-> t,
                           accumulated |-> 0, alert_sent |-> FALSE]
                 created == [st EXCEPT
                     !.next = IncrementId(@),
                     !.sessions = [s \in DOMAIN @ \cup {new_sid} |->
                                      IF s = new_sid THEN sinfo ELSE @[s]],
                     !.seen = @ \cup {new_sid}]
             IN  log_event(created, fail,
                           [event |-> "usage_start", session_id |-> new_sid,
                            box |-> box])

RECURSIVE ProcessDetections(_, _, _, _, _, _)
ProcessDetections(st, fail, boxes, map, t, i) ==
    IF st.raised \/ i > Len(boxes) THEN st
    ELSE ProcessDetections(ProcessDetection(st, fail, boxes, map, t, i),
                           fail, boxes, map, t, i + 1)

\* "if gap > self.gap_tolerance_sec": the unseen session is finalized
ExpiredNever(gap) == FALSE
ExpiredAtTolerance(gap) == gap >= gap_tolerance_sec
Expired(gap) == gap > gap_tolerance_sec

\* "duration = sinfo['accumulated']" of a session being finalized at time t
duration_with_gap(t, sinfo) == sinfo.accumulated + (t - sinfo.last_seen_ts)
duration_at_end(t, sinfo) == sinfo.accumulated

\* "del self.active_sessions[sid]", which the usage_end write precedes: st is
\* the call after that write
RemoveNever(st, sid) == st
RemoveRegardless(st, sid) ==
    [st EXCEPT !.sessions = [s \in DOMAIN @ \ {sid} |-> @[s]]]
RemoveAfterLog(st, sid) ==
    IF st.raised THEN st
    ELSE [st EXCEPT !.sessions = [s \in DOMAIN @ \ {sid} |-> @[s]]]

\* "alert_triggered": sinfo['alert_sent'] of the usage_end record
alert_flag_dropped(sinfo) == FALSE
alert_flag_at_end(sinfo) == sinfo.alert_sent

\* the loop over list(self.active_sessions.items()) that ends unseen sessions
RECURSIVE EndUnseen(_, _, _, _, _)
EndUnseen(st, fail, order, t, k) ==
    IF st.raised \/ k > Len(order) THEN st
    ELSE LET sid == order[k]
             sinfo == st.sessions[sid]
             gap == t - sinfo.last_seen_ts
         IN  IF sid \notin st.seen /\ Expired(gap)
             THEN LET duration == duration_at_end(t, sinfo)
                      logged == log_event(st, fail,
                           [event |-> "usage_end", session_id |-> sid,
                            duration_seconds |-> DurationSeconds(duration),
                            alert_triggered |-> alert_flag_at_end(sinfo)])
                      removed == RemoveAfterLog(logged, sid)
                  IN  EndUnseen(removed, fail, order, t, k + 1)
             ELSE EndUnseen(st, fail, order, t, k + 1)

\* "(not sinfo['alert_sent']) and should_consider and elapsed >= threshold"
ShouldAlertAgain(sinfo) == sinfo.accumulated >= alert_threshold_sec
ShouldAlertStrict(sinfo) ==
    ~sinfo.alert_sent /\ sinfo.accumulated > alert_threshold_sec
ShouldAlert(sinfo) ==
    ~sinfo.alert_sent /\ sinfo.accumulated >= alert_threshold_sec

\* the loop over self.active_sessions.items() that sends alerts
RECURSIVE CheckAlerts(_, _, _, _)
CheckAlerts(st, fail, order, k) ==
    IF st.raised \/ k > Len(order) THEN st
    ELSE LET sid == order[k]
             sinfo == st.sessions[sid]
             elapsed == sinfo.accumulated
         IN  IF ShouldAlert(sinfo)
             THEN CheckAlerts(
                      log_event([st EXCEPT !.sessions[sid].alert_sent = TRUE],
                                fail,
                                [event |-> "alert_triggered", session_id |-> sid,
                                 duration_seconds |-> DurationSeconds(elapsed)]),
                      fail, order, k + 1)
             ELSE CheckAlerts(st, fail, order, k + 1)

\* detect(frame) at time t on the phone boxes of the frame
detect(sessions, next, lg, boxes, t, fail) ==
    LET map == match_boxes_to_sessions(sessions, boxes)
        st0 == [sessions |-> sessions, next |-> next, log |-> lg, seen |-> {},
                writes |-> 0, raised |-> FALSE]
        st1 == ProcessDetections(st0, fail, boxes, map, t, 1)
        st2 == EndUnseen(st1, fail, DictOrder(DOMAIN st1.sessions), t, 1)
        st3 == CheckAlerts(st2, fail, DictOrder(DOMAIN st2.sessions), 1)
    IN  [st3 EXCEPT !.writes = map]

(***************************************************************************)
(* The state machine: the wall clock advances, and frames are processed    *)
(* one after the other.                                                    *)
(***************************************************************************)
Init ==
    /\ clock = 0
    /\ active_sessions = <<>>
    /\ next_session_id = 1
    /\ log = <<>>
    /\ now = -1
    /\ phone_boxes = <<>>
    /\ mapping = <<>>
    /\ seen_session_ids = {}
    /\ raised = FALSE
    /\ at_entry = [active_sessions |-> <<>>, next_session_id |-> 1, log_len |-> 0]
    /\ current_source = "none"
    /\ pc = [v \in Viewers |-> "idle"]
    /\ t_now = [v \in Viewers |-> 0]
    /\ t_frame = [v \in Viewers |-> <<>>]
    /\ single_viewer = [active_sessions |-> <<>>, next_session_id |-> 1,
                        log |-> <<>>]
    /\ video_camera = None
    /\ camera = [v \in Viewers |-> None]
    /\ toggle_camera = None
    /\ track_history = [c \in Cameras |-> <<>>]
    /\ paused = [c \in Cameras |-> FALSE]
    /\ last_frame = [c \in Cameras |-> <<>>]
    /\ called = 1
    /\ detections = <<>>
    /\ returned = <<>>
    /\ history_at_entry = <<>>
    /\ shiny_before = {}
    /\ shiny_ever = [c \in Cameras |-> {}]
    /\ reads = <<>>
    /\ cam_pc = [v \in Viewers |-> "out"]
    /\ t_get_frame = [v \in Viewers |-> NoCamLocals]
    /\ toggle_pc = "idle"
    /\ track_entries = [c \in Cameras |-> <<>>]
    /\ track_heap = [c \in Cameras |-> <<>>]
    /\ source_type = "none"
    /\ stop_pc = "idle"
    /\ t_success = [v \in Viewers |-> FALSE]
    /\ start_pc = "idle"
    /\ entries = <<>>
    /\ heap = <<>>
    /\ t_detect = [v \in Viewers |-> NoLocals]
    /\ served = [starts |-> 0, stops |-> 0, reads |-> 0]
    /\ raw_box = <<>>
    /\ roi = <<>>
    /\ bad_call = <<>>

Tick ==
    /\ clock < MaxTime
    /\ clock' = clock + 1
    /\ UNCHANGED <<loop_vars, camera_vars, detector_vars, web_vars>>

\* the effect of detect(frame) on the detector, with now = t
DetectAt(boxes, t, fail) ==
    \E r \in {detect(active_sessions, next_session_id, log, boxes, t, fail)} :
        /\ r.next <= MaxId + 1
        /\ active_sessions' = r.sessions
        /\ next_session_id' = r.next
        /\ log' = r.log
        /\ now' = t
        /\ phone_boxes' = boxes
        /\ mapping' = r.writes
        /\ seen_session_ids' = r.seen
        /\ raised' = r.raised
        /\ at_entry' = [active_sessions |-> active_sessions,
                        next_session_id |-> next_session_id,
                        log_len |-> Len(log)]

\* one call of detect after the other: time.time() has moved on since the
\* call before, and no exception has ended the loop that calls detect
DetectCall(boxes, fail) ==
    /\ clock > now
    /\ ~raised
    /\ DetectAt(boxes, clock, fail)
    /\ UNCHANGED <<loop_vars, camera_vars, clock, web_vars>>

\* a frame is processed while the audit log can be written
Detect == \E boxes \in Frames : DetectCall(boxes, 0)

\* the frames of a scene with two phones that do not overlap
SinkFrames == {f \in Frames : \A i \in DOMAIN f : f[i] \in {BoxP, BoxF}}

DetectSinkWorks == \E boxes \in SinkFrames : DetectCall(boxes, 0)

\* a frame is processed and one write of the audit log fails: open() or
\* write() raises OSError inside _log_event, which nothing catches, so that
\* the exception leaves detect and ends the generator that called it
DetectSinkFails ==
    \E boxes \in SinkFrames :
        LET ok == detect(active_sessions, next_session_id, log, boxes, clock, 0)
        IN  \E fail \in 1..(Len(ok.log) - Len(log)) : DetectCall(boxes, fail)

Next == Tick \/ Detect

\* the detector fed with frames one after the other, the log sink working
Spec == Init /\ [][Next]_vars

\* the frames of a scene that shows one phone at a time, here or there
FairFrames == {<<>>, <<BoxP>>, <<BoxF>>}

DetectFair == \E boxes \in FairFrames : DetectCall(boxes, 0)

NextFair == Tick \/ DetectFair

\* frames keep being processed: time passes, and the loop of
\* generate_frames, which calls detect on every frame it reads, is not
\* held up for ever while a frame is due
SpecFair == Init /\ [][NextFair]_vars /\ WF_vars(Tick) /\ WF_vars(DetectFair)

\* the clock, followed until an exception has left detect
TickSink == ~raised /\ Tick

NextSink == TickSink \/ DetectSinkWorks \/ DetectSinkFails

\* the same with a log sink whose writes may fail, up to the first exception
SpecSink == Init /\ [][NextSink]_vars

(***************************************************************************)
(* _match_boxes_to_sessions on its own: any open sessions, any detections. *)
(***************************************************************************)
\* session stores with n open sessions, inserted in the order of their ids
Stores(n) ==
    {[sid \in 1..n |-> [box |-> b[sid], start_ts |-> 0, last_seen_ts |-> 0,
                        accumulated |-> 0, alert_sent |-> FALSE]] :
        b \in [1..n -> Boxes]}

InitMatch ==
    /\ clock = 0
    /\ \E n \in 0..MaxOpen : active_sessions \in Stores(n)
    /\ next_session_id = Len(active_sessions) + 1
    /\ log = <<>>
    /\ now = 0
    /\ phone_boxes = <<>>
    /\ mapping = <<>>
    /\ seen_session_ids = {}
    /\ raised = FALSE
    /\ at_entry = [active_sessions |-> active_sessions,
                   next_session_id |-> next_session_id, log_len |-> 0]
    /\ current_source = "none"
    /\ pc = [v \in Viewers |-> "idle"]
    /\ t_now = [v \in Viewers |-> 0]
    /\ t_frame = [v \in Viewers |-> <<>>]
    /\ single_viewer = [active_sessions |-> <<>>, next_session_id |-> 1,
                        log |-> <<>>]
    /\ video_camera = None
    /\ camera = [v \in Viewers |-> None]
    /\ toggle_camera = None
    /\ track_history = [c \in Cameras |-> <<>>]
    /\ paused = [c \in Cameras |-> FALSE]
    /\ last_frame = [c \in Cameras |-> <<>>]
    /\ called = 1
    /\ detections = <<>>
    /\ returned = <<>>
    /\ history_at_entry = <<>>
    /\ shiny_before = {}
    /\ shiny_ever = [c \in Cameras |-> {}]
    /\ reads = <<>>
    /\ cam_pc = [v \in Viewers |-> "out"]
    /\ t_get_frame = [v \in Viewers |-> NoCamLocals]
    /\ toggle_pc = "idle"
    /\ track_entries = [c \in Cameras |-> <<>>]
    /\ track_heap = [c \in Cameras |-> <<>>]
    /\ source_type = "none"
    /\ stop_pc = "idle"
    /\ t_success = [v \in Viewers |-> FALSE]
    /\ start_pc = "idle"
    /\ entries = <<>>
    /\ heap = <<>>
    /\ t_detect = [v \in Viewers |-> NoLocals]
    /\ served = [starts |-> 0, stops |-> 0, reads |-> 0]
    /\ raw_box = <<>>
    /\ roi = <<>>
    /\ bad_call = <<>>

\* mapping = self._match_boxes_to_sessions(phone_boxes), called once on the
\* store drawn
Match ==
    /\ phone_boxes = <<>>
    /\ mapping = <<>>
    /\ \E boxes \in MatchFrames :
           /\ phone_boxes' = boxes
           /\ mapping' = match_boxes_to_sessions(active_sessions, boxes)
    /\ UNCHANGED <<loop_vars, camera_vars, clock, active_sessions, next_session_id, log, now,
                   seen_session_ids, raised, at_entry, web_vars>>

SpecMatch == InitMatch /\ [][Match]_vars

(***************************************************************************)
(* The Flask layer of src/app.py.  app.run(threaded=True) serves every     *)
(* request on a thread of its own; every /video_feed request iterates its  *)
(* own generate_frames() over the one global detector and source, and no   *)
(* lock is taken anywhere.  The threads are followed statement by          *)
(* statement: a step holds one access to what the threads share (the       *)
(* globals current_source and current_source_type, the dict                *)
(* self.active_sessions, a field of a session_info, self.next_session_id,  *)
(* the audit log) and the computation on locals that follows it, so that   *)
(* a thread can be overtaken between any two accesses, an augmented        *)
(* assignment being a load and a store.                                    *)
(*                                                                         *)
(* current_source is "none", "open", "released" (between release() and the *)
(* assignment of None) or "unopened" (a VideoCapture that could not open   *)
(* its source).  The dict self.active_sessions is its array of entries, in *)
(* insertion order, a deleted entry leaving a hole; within the bounds      *)
(* fewer keys are inserted than the smallest dict holds, so that the array *)
(* is never compacted.  The session_info dicts are objects of a heap: a    *)
(* thread can hold one that has left the dict.  active_sessions is the     *)
(* dict read through the heap.                                             *)
(***************************************************************************)
\* what the source shows: nothing, or one phone
WebFrames == {<<>>, <<BoxP>>}

\* the instants at which detect reads time.time() while the Flask layer is
\* followed: the start, the longest gap that is bridged after it, and one
\* tick later, a gap that is not bridged
WebTimes == {0, gap_tolerance_sec, gap_tolerance_sec + 1}

\* a deleted entry of the dict
Hole == [sid |-> 0, obj |-> 0]

\* the keys of the dict, the entry of a key and the object it holds
Keys(ents) == {ents[k].sid : k \in DOMAIN ents} \ {0}
Slot(ents, sid) == CHOOSE k \in DOMAIN ents : ents[k].sid = sid
ObjOf(ents, sid) == ents[Slot(ents, sid)].obj

\* len(self.active_sessions)
ma_used(ents) == Cardinality(Keys(ents))

\* self.active_sessions as session id -> session_info
Deref(h, ents) == [sid \in Keys(ents) |-> h[ObjOf(ents, sid)]]

\* "self.active_sessions[sid] = sinfo": the value of an existing key is
\* replaced in its entry, a new key is appended
SetItem(ents, sid, obj) ==
    IF sid \in Keys(ents)
    THEN [ents EXCEPT ![Slot(ents, sid)] = [sid |-> sid, obj |-> obj]]
    ELSE Append(ents, [sid |-> sid, obj |-> obj])

\* "del self.active_sessions[sid]" of an existing key
DelItem(ents, sid) == [ents EXCEPT ![Slot(ents, sid)] = Hole]

\* "self.active_sessions.items()" being iterated: the iterator remembers
\* its position in the entries, the size of the dict when it was made, and
\* how many items it has still to give
NewIter(ents) ==
    [pos |-> 1, used |-> ma_used(ents), len |-> ma_used(ents)]

\* the first entry at or after pos that is not a hole, 0 when there is none
NextSlot(ents, pos) ==
    LET live == {k \in DOMAIN ents : k >= pos /\ ents[k] # Hole}
    IN  IF live = {} THEN 0 ELSE SetMin(live)

\* next(iterator): RuntimeError when the size of the dict has changed since
\* the iterator was made or when an item turns up after the last one was
\* given, the end of the loop, or the next item
IterNext(ents, it) ==
    LET k == NextSlot(ents, it.pos)
    IN  IF it.used # ma_used(ents) THEN [kind |-> "RuntimeError"]
        ELSE IF k = 0 THEN [kind |-> "stop"]
        ELSE IF it.len = 0 THEN [kind |-> "RuntimeError"]
        ELSE [kind |-> "item", sid |-> ents[k].sid, obj |-> ents[k].obj,
              it |-> [pos |-> k + 1, used |-> it.used, len |-> it.len - 1]]

\* the objects the dict or a local of a thread refers to: the others are
\* garbage
Referenced(ents, locals) ==
    ({ents[k].obj : k \in DOMAIN ents}
        \cup {locals[v].obj : v \in Viewers}
        \cup UNION {{locals[v].items[j].obj : j \in DOMAIN locals[v].items} :
                    v \in Viewers}) \ {0}
Collect(h, ents, locals) ==
    [o \in DOMAIN h \cap Referenced(ents, locals) |-> h[o]]

\* a new object
Alloc(h) == SetMin((1..(Cardinality(DOMAIN h) + 1)) \ DOMAIN h)

\* the pipeline state of a sequential call, which no thread step records
call_vars == <<now, phone_boxes, mapping, seen_session_ids, raised, at_entry>>

\* the positions of a thread inside detect
DetectPcs ==
    {"match_iter", "match_next", "match_box", "lookup", "set_box",
     "read_last_seen", "load_acc", "store_acc", "set_last_seen", "new_sid",
     "load_next", "store_next", "insert", "log_start", "snapshot", "read_gap",
     "read_duration", "read_alert", "log_end", "delete", "alert_iter",
     "alert_next", "alert_acc", "alert_flag", "alert_set", "log_alert",
     "draw_iter", "draw_next", "return"}
InDetect(v) == pc[v] \in DetectPcs

(***************************************************************************)
(* /start_detection and /stop_detection.                                   *)
(***************************************************************************)
\* start_detection: "current_source = cv2.VideoCapture(source_path)": a new
\* VideoCapture replaces the global, opened or not
StartSource ==
    /\ start_pc = "idle"
    /\ served.starts < MaxStarts
    /\ served' = [served EXCEPT !.starts = @ + 1]
    /\ \E type \in {"camera", "video"} : start_pc' = type
    /\ \E opened \in {"open", "unopened"} : current_source' = opened
    /\ UNCHANGED <<source_type, stop_pc, t_success, bad_call, entries, heap,
                   t_detect, raw_box, roi>>
    /\ UNCHANGED <<camera_vars, clock, detector_vars, pc, t_now, t_frame,
                   single_viewer>>

\* start_detection: "current_source_type = 'camera'" or "= 'video'"; the
\* test of isOpened() that follows changes nothing, the source staying in
\* the global when it could not be opened
StartType ==
    /\ start_pc # "idle"
    /\ source_type' = start_pc
    /\ start_pc' = "idle"
    /\ UNCHANGED <<stop_pc, t_success, bad_call, entries, heap, t_detect,
                   served, raw_box, roi>>
    /\ UNCHANGED <<camera_vars, clock, detector_vars, web_vars>>

\* stop_detection: "if current_source is not None"
StopBegin ==
    /\ stop_pc = "idle"
    /\ current_source # "none"
    /\ served.stops < MaxStops
    /\ served' = [served EXCEPT !.stops = @ + 1]
    /\ stop_pc' = "release"
    /\ UNCHANGED <<source_type, start_pc, t_success, bad_call, entries, heap,
                   t_detect, raw_box, roi>>
    /\ UNCHANGED <<camera_vars, clock, detector_vars, web_vars>>

\* stop_detection: "current_source.release()"
StopRelease ==
    /\ stop_pc = "release"
    /\ current_source' = "released"
    /\ stop_pc' = "clear"
    /\ UNCHANGED <<source_type, start_pc, t_success, bad_call, entries, heap,
                   t_detect, served, raw_box, roi>>
    /\ UNCHANGED <<camera_vars, clock, detector_vars, pc, t_now, t_frame,
                   single_viewer>>

\* stop_detection: "current_source = None"
StopClear ==
    /\ stop_pc = "clear"
    /\ current_source' = "none"
    /\ stop_pc' = "idle"
    /\ UNCHANGED <<source_type, start_pc, t_success, bad_call, entries, heap,
                   t_detect, served, raw_box, roi>>
    /\ UNCHANGED <<camera_vars, clock, detector_vars, pc, t_now, t_frame,
                   single_viewer>>

(***************************************************************************)
(* generate_frames.  A thread is "idle" (no request, or its generator has  *)
(* ended), at the test of the "loop", at one of its statements, inside     *)
(* detect, or suspended at the "yield" until its client takes the frame;   *)
(* an exception that nothing catches ends it, and its position is then the *)
(* name of the exception.                                                  *)
(***************************************************************************)
\* video_feed: a client connects and its response starts generate_frames(),
\* on the first thread that is free (the threads are alike)
Connect(v) ==
    /\ pc[v] = "idle"
    /\ \A u \in Viewers : u < v => pc[u] # "idle"
    /\ pc' = [pc EXCEPT ![v] = "loop"]
    /\ UNCHANGED <<loop_vars, camera_vars, clock, detector_vars,
                   current_source, t_now, t_frame, single_viewer>>

\* "while current_source is not None" is false: the generator ends
LoopExit(v) ==
    /\ pc[v] = "loop"
    /\ current_source = "none"
    /\ pc' = [pc EXCEPT ![v] = "idle"]
    /\ UNCHANGED <<loop_vars, camera_vars, clock, detector_vars,
                   current_source, t_now, t_frame, single_viewer>>

\* "while current_source is not None" holds
WhileNotNone(v) ==
    /\ pc[v] = "loop"
    /\ current_source # "none"
    /\ pc' = [pc EXCEPT ![v] = "isOpened"]
    /\ UNCHANGED <<loop_vars, camera_vars, clock, detector_vars,
                   current_source, t_now, t_frame, single_viewer>>

\* a method of the object current_source holds is called: an AttributeError
\* on None, and a call that is recorded on None or on a released source
CallOn(v, method, next_pc) ==
    /\ pc' = [pc EXCEPT ![v] = IF current_source = "none"
                                THEN "AttributeError" ELSE next_pc]
    /\ bad_call' = IF current_source \in {"none", "released"}
                   THEN <<method, current_source>> ELSE bad_call

\* "and current_source.isOpened()": the loop goes on, or ends
WhileIsOpened(v) ==
    /\ pc[v] = "isOpened"
    /\ CallOn(v, "isOpened", IF current_source = "open" THEN "read" ELSE "idle")
    /\ UNCHANGED <<source_type, start_pc, stop_pc, t_success, entries, heap,
                   t_detect, served, raw_box, roi>>
    /\ UNCHANGED <<camera_vars, clock, detector_vars, current_source, t_now,
                   t_frame, single_viewer>>

\* "success, frame = current_source.read()": a frame, or none (the end of
\* a video, a camera that gives nothing, a source released meanwhile)
ReadSource(v) ==
    /\ pc[v] = "read"
    /\ CallOn(v, "read", "branch")
    /\ \E success \in IF current_source = "open" /\ served.reads < MaxReads
                        THEN BOOLEAN ELSE {FALSE} :
           /\ t_success' = [t_success EXCEPT ![v] = success]
           /\ served' = [served EXCEPT !.reads = IF success THEN @ + 1 ELSE @]
           /\ \E boxes \in IF success THEN WebFrames ELSE {<<>>} :
                  t_frame' = [t_frame EXCEPT ![v] = boxes]
    /\ UNCHANGED <<source_type, start_pc, stop_pc, entries, heap, t_detect,
                   raw_box, roi>>
    /\ UNCHANGED <<camera_vars, clock, detector_vars, current_source, t_now,
                   single_viewer>>

\* "if not success"
ReadFailedAlwaysFalse(success) == FALSE
ReadFailed(success) == ~success

\* "if not success": rewind a video and continue, or break
ReadFailedBranch(v) ==
    /\ pc[v] = "branch"
    /\ ReadFailed(t_success[v])
    /\ pc' = [pc EXCEPT ![v] = IF source_type = "video" THEN "set" ELSE "idle"]
    /\ UNCHANGED <<loop_vars, camera_vars, clock, detector_vars,
                   current_source, t_now, t_frame, single_viewer>>

\* "current_source.set(cv2.CAP_PROP_POS_FRAMES, 0)" and "continue"
RewindSource(v) ==
    /\ pc[v] = "set"
    /\ CallOn(v, "set", "loop")
    /\ UNCHANGED <<source_type, start_pc, stop_pc, t_success, entries, heap,
                   t_detect, served, raw_box, roi>>
    /\ UNCHANGED <<camera_vars, clock, detector_vars, current_source, t_now,
                   t_frame, single_viewer>>

(***************************************************************************)
(* detect, statement by statement.                                         *)
(***************************************************************************)
\* where a thread goes on in the loop over phone_boxes with detection
\* loc.i: "sid = mapping.get(i)" and the branch on it, or the loop that
\* ends the unseen sessions
AfterDetection(v, loc) ==
    IF loc.i > Len(t_frame[v]) THEN "snapshot"
    ELSE IF loc.map[loc.i] # None THEN "lookup"
    ELSE "new_sid"
DetectionDone(v, loc) ==
    [loc EXCEPT !.sid = IF loc.i > Len(t_frame[v]) THEN 0 ELSE loc.map[loc.i],
                !.obj = 0, !.gap = 0, !.tmp = 0]

\* where a thread goes on in _match_boxes_to_sessions with detection
\* loc.i: the loop over the sessions for it, or, the detections exhausted,
\* "return mapping" and the first detection of the loop of detect
AfterMatch(v, loc) ==
    IF loc.i <= Len(t_frame[v]) THEN "match_iter"
    ELSE AfterDetection(v, [loc EXCEPT !.i = 1])
MatchDone(v, loc) ==
    IF loc.i <= Len(t_frame[v]) THEN loc
    ELSE DetectionDone(v, [loc EXCEPT !.i = 1, !.used = {}])

\* list(self.active_sessions.items()) from its first item on: the items
\* left once those in seen_session_ids are passed
RECURSIVE Unseen(_, _)
Unseen(items, seen) ==
    IF items = <<>> THEN <<>>
    ELSE IF Head(items).sid \in seen THEN Unseen(Tail(items), seen)
    ELSE items

\* where a thread goes on in the loop over the snapshot: "gap = now -
\* sinfo['last_seen_ts']" of the next item that was not seen, or the loop
\* that sends alerts
AfterUnseen(loc) == IF loc.items = <<>> THEN "alert_iter" ELSE "read_gap"
UnseenDone(loc, items) ==
    LET rest == Unseen(items, loc.seen)
    IN  [loc EXCEPT !.items = rest,
                    !.sid = IF rest = <<>> THEN 0 ELSE Head(rest).sid,
                    !.obj = 0, !.tmp = 0, !.flag = FALSE]

\* a step of thread v inside detect: its position and locals, the dict, the
\* heap, self.next_session_id and the audit log after it
DetectStep(v, next_pc, loc, h, ents, next, lg) ==
    /\ pc' = [pc EXCEPT ![v] = next_pc]
    /\ t_detect' = [t_detect EXCEPT ![v] = loc]
    /\ entries' = ents
    /\ heap' = Collect(h, ents, t_detect')
    /\ active_sessions' = Deref(h, ents)
    /\ next_session_id' = next
    /\ log' = lg
    /\ UNCHANGED <<call_vars, camera_vars, clock, current_source, t_now,
                   t_frame, single_viewer, source_type, start_pc, stop_pc,
                   t_success, bad_call, served, raw_box, roi>>

\* a step that reads or writes the locals only, or ends in an exception
LocalStep(v, next_pc, loc) ==
    DetectStep(v, next_pc, loc, heap, entries, next_session_id, log)
Raise(v, exception) == LocalStep(v, exception, NoLocals)

\* a step that writes field f of the object the thread holds
FieldStep(v, next_pc, loc, f, value) ==
    DetectStep(v, next_pc, loc,
               [heap EXCEPT ![t_detect[v].obj] = [@ EXCEPT ![f] = value]],
               entries, next_session_id, log)

\* the read gave a frame: detector.detect(frame) is entered and reads
\* "now = time.time()", which has not gone back since it was last read; the
\* model runs on the frame, and _match_boxes_to_sessions begins
EnterDetect(v) ==
    /\ pc[v] = "branch"
    /\ ~ReadFailed(t_success[v])
    /\ \E t \in {u \in WebTimes : u >= clock} :
           /\ clock' = t
           /\ t_now' = [t_now EXCEPT ![v] = t]
           /\ \E r \in {detect(single_viewer.active_sessions,
                               single_viewer.next_session_id,
                               single_viewer.log, t_frame[v], t, 0)} :
                  /\ r.next <= MaxId + 1
                  /\ single_viewer' = [active_sessions |-> r.sessions,
                                       next_session_id |-> r.next,
                                       log |-> r.log]
    /\ \E loc \in {[NoLocals EXCEPT
                       !.map = [i \in DOMAIN t_frame[v] |-> None],
                       !.i = 1]} :
           /\ pc' = [pc EXCEPT ![v] = AfterMatch(v, loc)]
           /\ t_detect' = [t_detect EXCEPT ![v] = MatchDone(v, loc)]
    /\ UNCHANGED <<source_type, start_pc, stop_pc, t_success, bad_call,
                   entries, heap, served, raw_box, roi>>
    /\ UNCHANGED <<camera_vars, detector_vars, current_source, t_frame>>

\* _match_boxes_to_sessions, "for sid, sinfo in
\* self.active_sessions.items()": the loop asks the iterator it of thread v
\* for its next item: RuntimeError, or the end of the loop ("mapping[i] =
\* best_sid", "used_sessions.add(best_sid)" and the next detection), or an
\* item, passed over when "sid in used_sessions"
MatchStep(v, it) ==
    /\ LET loc == t_detect[v]
           r == IterNext(entries, it)
           best_sid == loc.best[1]
           matched == [loc EXCEPT
                          !.map = [@ EXCEPT ![loc.i] = best_sid],
                          !.used = IF best_sid # None
                                   THEN @ \cup {best_sid} ELSE @,
                          !.i = @ + 1, !.it = NoIter,
                          !.best = <<None, <<0, 1>>>>]
       IN  CASE r.kind = "RuntimeError" -> Raise(v, "RuntimeError")
             [] r.kind = "stop" ->
                    LocalStep(v, AfterMatch(v, matched), MatchDone(v, matched))
             [] r.kind = "item" ->
                    IF Claimed(r.sid, loc.used)
                    THEN LocalStep(v, "match_next", [loc EXCEPT !.it = r.it])
                    ELSE LocalStep(v, "match_box",
                                   [loc EXCEPT !.it = r.it, !.sid = r.sid,
                                               !.obj = r.obj])

\* the loop is begun for detection i: the iterator is made and asked for
\* its first item at once
MatchIter(v) ==
    /\ pc[v] = "match_iter"
    /\ MatchStep(v, NewIter(entries))

\* the loop comes back for its next item
MatchNext(v) ==
    /\ pc[v] = "match_next"
    /\ MatchStep(v, t_detect[v].it)

\* "old_box = sinfo['box']", the three gates and the comparison with the
\* best score so far
MatchBox(v) ==
    /\ pc[v] = "match_box"
    /\ LET loc == t_detect[v]
           new_box == t_frame[v][loc.i]
           old_box == heap[loc.obj].box
           iou_val == iou(new_box, old_box)
           better == Eligible(new_box, old_box) /\ FracLess(loc.best[2], iou_val)
       IN  LocalStep(v, "match_next",
                     [loc EXCEPT !.best = IF better THEN <<loc.sid, iou_val>>
                                          ELSE @,
                                 !.sid = 0, !.obj = 0])

\* "sinfo = self.active_sessions[sid]": KeyError when the session has left
\* the dict since the mapping was made
Lookup(v) ==
    /\ pc[v] = "lookup"
    /\ LET loc == t_detect[v]
       IN  IF loc.sid \in Keys(entries)
           THEN LocalStep(v, "set_box",
                          [loc EXCEPT !.obj = ObjOf(entries, loc.sid)])
           ELSE Raise(v, "KeyError")

\* "sinfo['box'] = box"
SetBox(v) ==
    /\ pc[v] = "set_box"
    /\ FieldStep(v, "read_last_seen", t_detect[v], "box",
                 t_frame[v][t_detect[v].i])

\* "elapsed_gap = now - sinfo['last_seen_ts']" and
\* "if elapsed_gap <= self.gap_tolerance_sec"
ReadLastSeen(v) ==
    /\ pc[v] = "read_last_seen"
    /\ LET loc == t_detect[v]
           elapsed_gap == elapsed_gap_of(t_now[v], heap[loc.obj])
       IN  LocalStep(v, IF Bridged(elapsed_gap) THEN "load_acc"
                                                ELSE "set_last_seen",
                     [loc EXCEPT !.gap = elapsed_gap])

\* "sinfo['accumulated'] += elapsed_gap": the load
LoadAccumulated(v) ==
    /\ pc[v] = "load_acc"
    /\ LocalStep(v, "store_acc",
                 [t_detect[v] EXCEPT !.tmp = heap[t_detect[v].obj].accumulated])

\* "sinfo['accumulated'] += elapsed_gap": the store
StoreAccumulated(v) ==
    /\ pc[v] = "store_acc"
    /\ FieldStep(v, "set_last_seen", [t_detect[v] EXCEPT !.tmp = 0, !.gap = 0],
                 "accumulated", t_detect[v].tmp + t_detect[v].gap)

\* "sinfo['last_seen_ts'] = now", "seen_session_ids.add(sid)" and the next
\* detection
SetLastSeen(v) ==
    /\ pc[v] = "set_last_seen"
    /\ LET loc == t_detect[v]
           done == [loc EXCEPT !.seen = @ \cup {loc.sid}, !.i = @ + 1]
       IN  FieldStep(v, AfterDetection(v, done), DetectionDone(v, done),
                     "last_seen_ts", last_seen_after(t_now[v], heap[loc.obj]))

\* "sid = self.next_session_id"
NewSid(v) ==
    /\ pc[v] = "new_sid"
    /\ next_session_id <= MaxId
    /\ LocalStep(v, "load_next", [t_detect[v] EXCEPT !.sid = next_session_id])

\* "self.next_session_id += 1": the load
LoadNext(v) ==
    /\ pc[v] = "load_next"
    /\ LocalStep(v, "store_next", [t_detect[v] EXCEPT !.tmp = next_session_id])

\* "self.next_session_id += 1": the store
StoreNext(v) ==
    /\ pc[v] = "store_next"
    /\ DetectStep(v, "insert", [t_detect[v] EXCEPT !.tmp = 0], heap, entries,
                  IncrementId(t_detect[v].tmp), log)

\* the session_info is made and "self.active_sessions[sid] = sinfo" puts it
\* into the dict; "seen_session_ids.add(sid)"
Insert(v) ==
    /\ pc[v] = "insert"
    /\ LET loc == t_detect[v]
           box == t_frame[v][loc.i]
           sinfo == [box |-> box, start_ts |-> t_now[v],
                     last_seen_ts |-> t_now[v], accumulated |-> 0,
                     alert_sent |-> FALSE]
           obj == Alloc(heap)
           h == [o \in DOMAIN heap \cup {obj} |->
                    IF o = obj THEN sinfo ELSE heap[o]]
       IN  DetectStep(v, "log_start", [loc EXCEPT !.seen = @ \cup {loc.sid}],
                      h, SetItem(entries, loc.sid, obj), next_session_id, log)

\* "self._log_event('usage_start', sid, {'box': box})": the line is written
\* when the thread gets through makedirs, open and write; then the next
\* detection
LogStart(v) ==
    /\ pc[v] = "log_start"
    /\ LET loc == t_detect[v]
           done == [loc EXCEPT !.i = @ + 1]
       IN  DetectStep(v, AfterDetection(v, done), DetectionDone(v, done),
                      heap, entries, next_session_id,
                      Append(log, [event |-> "usage_start",
                                   session_id |-> loc.sid,
                                   box |-> t_frame[v][loc.i]]))

\* "list(self.active_sessions.items())": the snapshot the loop that ends
\* sessions runs over
Snapshot(v) ==
    /\ pc[v] = "snapshot"
    /\ LET loc == t_detect[v]
           items == SelectSeq(entries, LAMBDA e : e # Hole)
           done == UnseenDone(loc, items)
       IN  LocalStep(v, AfterUnseen(done), done)

\* "gap = now - sinfo['last_seen_ts']" and
\* "if gap > self.gap_tolerance_sec" for the session of the snapshot at hand
ReadGap(v) ==
    /\ pc[v] = "read_gap"
    /\ LET loc == t_detect[v]
           sinfo == heap[Head(loc.items).obj]
           gap == t_now[v] - sinfo.last_seen_ts
           done == UnseenDone(loc, Tail(loc.items))
       IN  IF Expired(gap)
           THEN LocalStep(v, "read_duration",
                          [loc EXCEPT !.obj = Head(loc.items).obj,
                                      !.items = Tail(@)])
           ELSE LocalStep(v, AfterUnseen(done), done)

\* "duration = sinfo['accumulated']"
ReadDuration(v) ==
    /\ pc[v] = "read_duration"
    /\ LocalStep(v, "read_alert",
                 [t_detect[v] EXCEPT
                     !.tmp = duration_at_end(t_now[v], heap[t_detect[v].obj])])

\* "bool(sinfo['alert_sent'])", the last argument of the call of _log_event
ReadAlert(v) ==
    /\ pc[v] = "read_alert"
    /\ LocalStep(v, "log_end",
                 [t_detect[v] EXCEPT
                     !.flag = alert_flag_at_end(heap[t_detect[v].obj]),
                     !.obj = 0])

\* "self._log_event('usage_end', sid, ...)": the line is written
LogEnd(v) ==
    /\ pc[v] = "log_end"
    /\ LET loc == t_detect[v]
       IN  DetectStep(v, "delete", [loc EXCEPT !.tmp = 0, !.flag = FALSE],
                      heap, entries, next_session_id,
                      Append(log, [event |-> "usage_end",
                                   session_id |-> loc.sid,
                                   duration_seconds |-> DurationSeconds(loc.tmp),
                                   alert_triggered |-> loc.flag]))

\* "del self.active_sessions[sid]": KeyError when another thread has
\* deleted the session since the snapshot; then the next item
Delete(v) ==
    /\ pc[v] = "delete"
    /\ LET loc == t_detect[v]
           done == UnseenDone(loc, loc.items)
       IN  IF loc.sid \in Keys(entries)
           THEN DetectStep(v, AfterUnseen(done), done, heap,
                           DelItem(entries, loc.sid), next_session_id, log)
           ELSE Raise(v, "KeyError")

\* "for sid, sinfo in self.active_sessions.items()" of the alerts: the loop
\* asks the iterator it for its next item
AlertStep(v, it) ==
    /\ LET loc == t_detect[v]
           r == IterNext(entries, it)
       IN  CASE r.kind = "RuntimeError" -> Raise(v, "RuntimeError")
             [] r.kind = "stop" ->
                    LocalStep(v, "draw_iter", [loc EXCEPT !.it = NoIter])
             [] r.kind = "item" ->
                    LocalStep(v, "alert_acc",
                              [loc EXCEPT !.it = r.it, !.sid = r.sid,
                                          !.obj = r.obj])

\* the loop of the alerts is begun: the iterator is made and asked for its
\* first item at once
AlertIter(v) ==
    /\ pc[v] = "alert_iter"
    /\ AlertStep(v, NewIter(entries))

\* the loop of the alerts comes back for its next item
AlertNext(v) ==
    /\ pc[v] = "alert_next"
    /\ AlertStep(v, t_detect[v].it)

\* "elapsed = sinfo['accumulated']"
AlertAccumulated(v) ==
    /\ pc[v] = "alert_acc"
    /\ LocalStep(v, "alert_flag",
                 [t_detect[v] EXCEPT !.tmp = heap[t_detect[v].obj].accumulated])

\* "if (not sinfo['alert_sent']) and should_consider and elapsed >=
\* self.alert_threshold_sec"
AlertFlag(v) ==
    /\ pc[v] = "alert_flag"
    /\ LET loc == t_detect[v]
           sinfo == [heap[loc.obj] EXCEPT !.accumulated = loc.tmp]
       IN  IF ShouldAlert(sinfo)
           THEN LocalStep(v, "alert_set", loc)
           ELSE LocalStep(v, "alert_next",
                          [loc EXCEPT !.sid = 0, !.obj = 0, !.tmp = 0])

\* "sinfo['alert_sent'] = True"
AlertSet(v) ==
    /\ pc[v] = "alert_set"
    /\ FieldStep(v, "log_alert", [t_detect[v] EXCEPT !.obj = 0],
                 "alert_sent", TRUE)

\* "self._log_event('alert_triggered', sid, ...)": the line is written
LogAlert(v) ==
    /\ pc[v] = "log_alert"
    /\ LET loc == t_detect[v]
       IN  DetectStep(v, "alert_next", [loc EXCEPT !.sid = 0, !.tmp = 0],
                      heap, entries, next_session_id,
                      Append(log, [event |-> "alert_triggered",
                                   session_id |-> loc.sid,
                                   duration_seconds |->
                                       DurationSeconds(loc.tmp)]))

\* "for sid, sinfo in self.active_sessions.items()" of the overlays: the
\* loop asks the iterator it for its next item and draws it
DrawStep(v, it) ==
    /\ LET loc == t_detect[v]
           r == IterNext(entries, it)
       IN  CASE r.kind = "RuntimeError" -> Raise(v, "RuntimeError")
             [] r.kind = "stop" -> LocalStep(v, "return", NoLocals)
             [] r.kind = "item" ->
                    LocalStep(v, "draw_next", [loc EXCEPT !.it = r.it])

\* the loop of the overlays is begun: the iterator is made and asked for
\* its first item at once
DrawIter(v) ==
    /\ pc[v] = "draw_iter"
    /\ DrawStep(v, NewIter(entries))

\* the loop of the overlays comes back for its next item
DrawNext(v) ==
    /\ pc[v] = "draw_next"
    /\ DrawStep(v, t_detect[v].it)

\* "return annotated, phone_count"; the frame is encoded and the generator
\* yields it
ReturnAndYield(v) ==
    /\ pc[v] = "return"
    /\ pc' = [pc EXCEPT ![v] = "yield"]
    /\ t_now' = [t_now EXCEPT ![v] = 0]
    /\ t_frame' = [t_frame EXCEPT ![v] = <<>>]
    /\ t_success' = [t_success EXCEPT ![v] = FALSE]
    /\ UNCHANGED <<source_type, start_pc, stop_pc, bad_call, entries, heap,
                   t_detect, served, raw_box, roi>>
    /\ UNCHANGED <<camera_vars, clock, detector_vars, current_source,
                   single_viewer>>

\* the client takes the frame: the generator resumes after the yield
Pull(v) ==
    /\ pc[v] = "yield"
    /\ pc' = [pc EXCEPT ![v] = "loop"]
    /\ UNCHANGED <<loop_vars, camera_vars, clock, detector_vars,
                   current_source, t_now, t_frame, single_viewer>>

\* the client goes away: the generator is closed at the yield
Disconnect(v) ==
    /\ pc[v] = "yield"
    /\ pc' = [pc EXCEPT ![v] = "idle"]
    /\ UNCHANGED <<loop_vars, camera_vars, clock, detector_vars,
                   current_source, t_now, t_frame, single_viewer>>

\* a statement of a thread inside detect
DetectNext(v) ==
    \/ MatchIter(v)
    \/ MatchNext(v)
    \/ MatchBox(v)
    \/ Lookup(v)
    \/ SetBox(v)
    \/ ReadLastSeen(v)
    \/ LoadAccumulated(v)
    \/ StoreAccumulated(v)
    \/ SetLastSeen(v)
    \/ NewSid(v)
    \/ LoadNext(v)
    \/ StoreNext(v)
    \/ Insert(v)
    \/ LogStart(v)
    \/ Snapshot(v)
    \/ ReadGap(v)
    \/ ReadDuration(v)
    \/ ReadAlert(v)
    \/ LogEnd(v)
    \/ Delete(v)
    \/ AlertIter(v)
    \/ AlertNext(v)
    \/ AlertAccumulated(v)
    \/ AlertFlag(v)
    \/ AlertSet(v)
    \/ LogAlert(v)
    \/ DrawIter(v)
    \/ DrawNext(v)
    \/ ReturnAndYield(v)

\* a statement of the thread of a /video_feed request
ViewerNext(v) ==
    \/ Connect(v)
    \/ LoopExit(v)
    \/ WhileNotNone(v)
    \/ WhileIsOpened(v)
    \/ ReadSource(v)
    \/ ReadFailedBranch(v)
    \/ RewindSource(v)
    \/ EnterDetect(v)
    \/ DetectNext(v)
    \/ Pull(v)
    \/ Disconnect(v)

\* the statements of all the handlers, interleaved: the threads of a
\* /start_detection request, of a /stop_detection request and of the
\* /video_feed requests
NextWeb ==
    \/ StartSource
    \/ StartType
    \/ StopBegin
    \/ StopRelease
    \/ StopClear
    \/ \E v \in Viewers : ViewerNext(v)

SpecWeb == Init /\ [][NextWeb]_vars

\* the thread of one /video_feed request next to the threads of a
\* /start_detection and of a /stop_detection request
NextLoop ==
    \/ StartSource
    \/ StartType
    \/ StopBegin
    \/ StopRelease
    \/ StopClear
    \/ ViewerNext(1)

SpecLoop == Init /\ [][NextLoop]_vars

(***************************************************************************)
(* The second application (src/src): VideoCamera.get_frame classifies each *)
(* tracked detection as calculator or phone from the entropy and the glare *)
(* of its region, with a per-track glare latch in self.track_history.      *)
(* A detection is [track_id, box_ok, label, glare, entropy]: box_ok is     *)
(* FALSE when the clipped box is empty, glare is the number of pixels of   *)
(* the region above the brightness threshold, entropy is in tenths.        *)
(***************************************************************************)
\* "id = -1" of YOLOProcessor.detect: the detection carries no identifier
NoTrack == -1
TrackIds == 1..MaxTrack
\* gray.size of a region
RoiPixels == 1000
\* num_bright_pixels of a region: at, and just above, 0.005 of its pixels
GlareLevels == {5, 6}
\* calculate_entropy of a region, in tenths: 5.5 and 5.6
EntropyLevels == {55, 56}
\* "entropy > 5.5", in tenths
EntropyThreshold == 55

\* what YOLOProcessor.detect may report for one object
CamDetections ==
    [track_id : TrackIds \cup {NoTrack}, box_ok : {TRUE}, label : {"phone"},
     glare : GlareLevels, entropy : EntropyLevels]
    \cup [track_id : TrackIds \cup {NoTrack}, box_ok : {TRUE},
          label : {"person"}, glare : {0}, entropy : {0}]
    \cup [track_id : TrackIds \cup {NoTrack}, box_ok : {FALSE},
          label : {"phone"}, glare : {0}, entropy : {0}]

\* the detections of one frame: the tracker gives an identifier to one
\* object of the frame at most
CamFrames ==
    {f \in UNION {[1..n -> CamDetections] : n \in 0..MaxCamDet} :
        \A i, j \in DOMAIN f :
            i # j /\ f[i].track_id # NoTrack => f[i].track_id # f[j].track_id}

\* "is_shiny_now = glare_score > 0.005", glare_score = bright / total
is_shiny_now(d) == d.glare * 1000 > 5 * RoiPixels

\* "is_high_entropy = entropy > 5.5"
IsHighEntropyLoose(d) == d.entropy >= EntropyThreshold
is_high_entropy(d) == d.entropy > EntropyThreshold

\* "if track_id != -1"
HasIdAlways(track_id) == TRUE
HasId(track_id) == track_id # NoTrack

\* "if is_shiny_now: self.track_history[track_id]['glare_seen'] = True"
LatchedInstant(glare_seen, shiny) == shiny
Latched(glare_seen, shiny) == IF shiny THEN TRUE ELSE glare_seen

\* "is_confirmed_phone = self.track_history[track_id]['glare_seen']"
ConfirmedNow(entry, shiny) == shiny
ConfirmedFromMemory(entry, shiny) == entry.glare_seen

\* self.track_history after the update for a detection with an identifier
UpdateHistory(history, d) ==
    LET id == d.track_id
        present == [t \in DOMAIN history \cup {id} |->
                       IF t \in DOMAIN history THEN history[t]
                       ELSE [glare_seen |-> FALSE, frames |-> 0]]
    IN  [present EXCEPT
            ![id].glare_seen = Latched(@, is_shiny_now(d)),
            ![id].frames = @ + 1]

\* is_likely_calculator and the label drawn
Classify(d, is_confirmed_phone) ==
    IF is_high_entropy(d) /\ ~is_confirmed_phone THEN "Calc"
    ELSE IF is_confirmed_phone THEN "G-Mem" ELSE "L-Ent"

\* the body of the loop over detections when no other thread is inside
\* get_frame: st is [history, labels]
ProcessCamDetection(st, d) ==
    IF ~d.box_ok
    THEN [st EXCEPT !.labels = Append(@, "skip")]
    ELSE IF d.label = "person"
    THEN [st EXCEPT !.labels = Append(@, "Person")]
    ELSE LET history == IF HasId(d.track_id)
                        THEN UpdateHistory(st.history, d) ELSE st.history
             is_confirmed_phone ==
                 IF HasId(d.track_id)
                 THEN ConfirmedFromMemory(history[d.track_id], is_shiny_now(d))
                 ELSE is_shiny_now(d)
         IN  [history |-> history,
              labels |-> Append(st.labels, Classify(d, is_confirmed_phone))]

\* the identifiers a frame evaluates with glare above the threshold
ShinyIds(dets) ==
    {dets[i].track_id : i \in {j \in DOMAIN dets :
        /\ dets[j].box_ok
        /\ dets[j].label # "person"
        /\ dets[j].track_id # NoTrack
        /\ is_shiny_now(dets[j])}}

\* self.track_history as id -> entry
TrackDeref(h, ents) == [t \in DOMAIN ents |-> h[ents[t]]]

\* the entries the dict of a camera or a local of a thread inside its
\* get_frame refers to
TrackCollect(h, ents, refs) ==
    [o \in DOMAIN h \cap ({ents[t] : t \in DOMAIN ents} \cup refs) |-> h[o]]

\* "if x2 <= x1 or y2 <= y1: continue", "if 'person' in label_name ...:
\* continue" and "if track_id != -1": the detection reads and writes
\* self.track_history
NeedsHistory(d) == d.box_ok /\ d.label # "person" /\ HasId(d.track_id)

\* "if track_id not in self.track_history"
NotInHistoryAlways(track_id, ents) == TRUE
NotInHistory(track_id, ents) == track_id \notin DOMAIN ents

\* the iterations of the loop over detections that touch no field of the
\* camera: empty box, person, no identifier
RECURSIVE AfterCamDetection(_)
AfterCamDetection(loc) ==
    IF loc.i > Len(loc.dets) THEN loc
    ELSE LET d == loc.dets[loc.i]
             label == IF ~d.box_ok THEN "skip"
                      ELSE IF d.label = "person" THEN "Person"
                      ELSE Classify(d, is_shiny_now(d))
         IN  IF NeedsHistory(d) THEN loc
             ELSE AfterCamDetection([loc EXCEPT !.i = @ + 1,
                                                !.labels = Append(@, label)])
CamDetectionDone(loc) ==
    IF loc.i > Len(loc.dets) THEN "store_last" ELSE "member"

\* "if is_shiny_now:" after the entry is known to exist
AfterMember(loc) ==
    IF is_shiny_now(loc.dets[loc.i]) THEN "latch_lookup" ELSE "frames_lookup"

\* the global video_camera, the camera of each gen and the camera of the
\* /toggle_pause request become vc, cams and tc, self.paused of the cameras
\* is p: a VideoCamera nothing refers to any more is destroyed, and with it
\* what is recorded of the last call of its get_frame
Rebind(vc, cams, tc, p) ==
    LET live == ({vc, tc} \cup {cams[v] : v \in Viewers}) \ {None}
        Keep(f, initial) ==
            [c \in Cameras |-> IF c \in live THEN f[c] ELSE initial]
    IN  /\ video_camera' = vc
        /\ camera' = cams
        /\ toggle_camera' = tc
        /\ paused' = Keep(p, FALSE)
        /\ last_frame' = Keep(last_frame, <<>>)
        /\ track_history' = Keep(track_history, <<>>)
        /\ track_entries' = Keep(track_entries, <<>>)
        /\ track_heap' = Keep(track_heap, <<>>)
        /\ shiny_ever' = Keep(shiny_ever, {})
        /\ IF called \in live THEN UNCHANGED cam_call
           ELSE /\ detections' = <<>>
                /\ returned' = <<>>
                /\ reads' = <<>>
                /\ history_at_entry' = <<>>
                /\ shiny_before' = {}
                /\ UNCHANGED called

\* video_feed calls get_camera: "if video_camera is None"
VideoFeedGetCamera(v) ==
    /\ cam_pc[v] = "out"
    /\ cam_pc' = [cam_pc EXCEPT ![v] = IF video_camera = None
                                       THEN "camera_build" ELSE "camera_load"]
    /\ UNCHANGED <<cam_fields, cam_refs, cam_call, t_get_frame, toggle_pc>>
    /\ UNCHANGED <<clock, detector_vars, web_vars, loop_vars>>

\* "video_camera = VideoCamera(source='video.mp4')": the camera is built
\* and stored in the global, or the constructor raises ValueError because
\* the source could not be opened and the request ends
VideoFeedBuild(v) ==
    /\ cam_pc[v] = "camera_build"
    /\ \E opened \in BOOLEAN :
        IF opened
        THEN /\ cam_pc' = [cam_pc EXCEPT ![v] = "camera_load"]
             /\ Rebind(v, camera, toggle_camera, paused)
        ELSE /\ cam_pc' = [cam_pc EXCEPT ![v] = "out"]
             /\ UNCHANGED <<cam_fields, cam_refs, cam_call>>
    /\ UNCHANGED <<t_get_frame, toggle_pc>>
    /\ UNCHANGED <<clock, detector_vars, web_vars, loop_vars>>

\* "return video_camera": the global is read again, and gen(camera) begins
VideoFeedLoad(v) ==
    /\ cam_pc[v] = "camera_load"
    /\ cam_pc' = [cam_pc EXCEPT ![v] = "idle"]
    /\ Rebind(video_camera, [camera EXCEPT ![v] = video_camera],
              toggle_camera, paused)
    /\ UNCHANGED <<t_get_frame, toggle_pc>>
    /\ UNCHANGED <<clock, detector_vars, web_vars, loop_vars>>

\* the client of a stream goes away: its generator is closed at the yield
VideoFeedClose(v) ==
    /\ cam_pc[v] = "idle"
    /\ cam_pc' = [cam_pc EXCEPT ![v] = "out"]
    /\ Rebind(video_camera, [camera EXCEPT ![v] = None], toggle_camera,
              paused)
    /\ UNCHANGED <<t_get_frame, toggle_pc>>
    /\ UNCHANGED <<clock, detector_vars, web_vars, loop_vars>>

\* a step of get_frame by thread v: the entry objects of its camera are h,
\* its dict is ents
CamStep(v, next_pc, loc, h, ents) ==
    LET c == camera[v]
        locals == [t_get_frame EXCEPT ![v] = loc]
        refs == {locals[u].ref : u \in {w \in Viewers : camera[w] = c}}
    IN  /\ cam_pc' = [cam_pc EXCEPT ![v] = next_pc]
        /\ t_get_frame' = locals
        /\ track_entries' = [track_entries EXCEPT ![c] = ents]
        /\ track_heap' = [track_heap EXCEPT ![c] = TrackCollect(h, ents, refs)]
        /\ track_history' = [track_history EXCEPT ![c] = TrackDeref(h, ents)]
        /\ UNCHANGED <<paused, last_frame, shiny_ever, cam_refs, cam_call,
                       toggle_pc>>
        /\ UNCHANGED <<clock, detector_vars, web_vars, loop_vars>>

\* a step of get_frame that leaves self.track_history as it is
CamLocalStep(v, next_pc, loc) ==
    CamStep(v, next_pc, loc, track_heap[camera[v]], track_entries[camera[v]])

\* get_frame returns value to gen
CamReturn(v, value) ==
    /\ cam_pc' = [cam_pc EXCEPT ![v] = "idle"]
    /\ t_get_frame' = [t_get_frame EXCEPT ![v] = NoCamLocals]
    /\ returned' = value
    /\ detections' = t_get_frame[v].dets
    /\ reads' = t_get_frame[v].reads
    /\ shiny_ever' = [shiny_ever EXCEPT
                         ![camera[v]] = @ \cup ShinyIds(t_get_frame[v].dets)]
    /\ UNCHANGED <<track_history, track_entries, track_heap, paused,
                   last_frame, cam_refs, toggle_pc, history_at_entry,
                   shiny_before, called>>
    /\ UNCHANGED <<clock, detector_vars, web_vars, loop_vars>>

\* toggle_pause of app.py calls get_camera: "if video_camera is None"
ToggleGetCamera ==
    /\ toggle_pc = "idle"
    /\ toggle_pc' = IF video_camera = None
                    THEN "camera_build" ELSE "camera_load"
    /\ UNCHANGED <<cam_fields, cam_refs, cam_call, cam_pc, t_get_frame>>
    /\ UNCHANGED <<clock, detector_vars, web_vars, loop_vars>>

\* "video_camera = VideoCamera(source='video.mp4')" for /toggle_pause
ToggleBuild ==
    /\ toggle_pc = "camera_build"
    /\ \E opened \in BOOLEAN :
        IF opened
        THEN /\ toggle_pc' = "camera_load"
             /\ Rebind(ToggleCamera, camera, toggle_camera, paused)
        ELSE /\ toggle_pc' = "idle"
             /\ UNCHANGED <<cam_fields, cam_refs, cam_call>>
    /\ UNCHANGED <<cam_pc, t_get_frame>>
    /\ UNCHANGED <<clock, detector_vars, web_vars, loop_vars>>

\* "return video_camera" for /toggle_pause: "camera = get_camera()"
ToggleLoad ==
    /\ toggle_pc = "camera_load"
    /\ toggle_pc' = "toggle"
    /\ Rebind(video_camera, camera, video_camera, paused)
    /\ UNCHANGED <<cam_pc, t_get_frame>>
    /\ UNCHANGED <<clock, detector_vars, web_vars, loop_vars>>

\* toggle_pause: "not self.paused" is evaluated
TogglePause ==
    /\ toggle_pc = "toggle"
    /\ toggle_pc' = IF paused[toggle_camera]
                    THEN "store_false" ELSE "store_true"
    /\ UNCHANGED <<cam_fields, cam_refs, cam_call, cam_pc, t_get_frame>>
    /\ UNCHANGED <<clock, detector_vars, web_vars, loop_vars>>

\* toggle_pause: the value is assigned to self.paused, and the request
\* returns
TogglePauseStore ==
    /\ toggle_pc \in {"store_true", "store_false"}
    /\ toggle_pc' = "idle"
    /\ Rebind(video_camera, camera, None,
              [paused EXCEPT ![toggle_camera] = (toggle_pc = "store_true")])
    /\ UNCHANGED <<cam_pc, t_get_frame>>
    /\ UNCHANGED <<clock, detector_vars, web_vars, loop_vars>>

\* the thread of the /toggle_pause requests, one request after the other
TogglePauseRequest ==
    \/ ToggleGetCamera
    \/ ToggleBuild
    \/ ToggleLoad
    \/ TogglePause
    \/ TogglePauseStore

\* gen calls get_frame: "if self.paused"
GetFrameIfPaused(v) ==
    /\ cam_pc[v] \in {"idle", "continue"}
    /\ cam_pc' = [cam_pc EXCEPT ![v] = IF paused[camera[v]]
                                       THEN "test_last" ELSE "read"]
    /\ UNCHANGED <<cam_fields, cam_refs, toggle_pc, t_get_frame>>
    /\ UNCHANGED <<clock, detector_vars, web_vars, loop_vars>>
    /\ detections' = <<>>
    /\ returned' = <<>>
    /\ reads' = <<>>
    /\ history_at_entry' = track_history[camera[v]]
    /\ shiny_before' = shiny_ever[camera[v]]
    /\ called' = camera[v]

\* "and self.last_frame is not None"
GetFrameIfLastFrame(v) ==
    /\ cam_pc[v] = "test_last"
    /\ CamLocalStep(v, IF last_frame[camera[v]] # <<>> THEN "sleep" ELSE "read",
                    t_get_frame[v])

\* "time.sleep(0.03)" is over: "return self.last_frame"
GetFramePaused(v) ==
    /\ cam_pc[v] = "sleep"
    /\ CamReturn(v, last_frame[camera[v]])

\* "success, image = self.video.read()", first or after the rewind; after
\* the rewind "if not success: return None", on which gen continues without
\* a yield
GetFrameRead(v) ==
    /\ cam_pc[v] \in {"read", "reread"}
    /\ \E success \in BOOLEAN :
        LET loc == [t_get_frame[v] EXCEPT !.reads = Append(@, success)]
        IN  IF success THEN CamLocalStep(v, "detect", loc)
            ELSE IF cam_pc[v] = "read" THEN CamLocalStep(v, "set", loc)
            ELSE /\ cam_pc' = [cam_pc EXCEPT ![v] = "continue"]
                 /\ t_get_frame' = [t_get_frame EXCEPT ![v] = NoCamLocals]
                 /\ returned' = <<>>
                 /\ detections' = <<>>
                 /\ reads' = loc.reads
                 /\ UNCHANGED <<cam_fields, cam_refs, toggle_pc,
                                history_at_entry, shiny_before, called>>
                 /\ UNCHANGED <<clock, detector_vars, web_vars, loop_vars>>

\* "self.video.set(cv2.CAP_PROP_POS_FRAMES, 0)"
GetFrameRewind(v) ==
    /\ cam_pc[v] = "set"
    /\ CamLocalStep(v, "reread", t_get_frame[v])

\* "detections = self.detector.detect(image)", and the iterations of the
\* loop up to the first detection that has an identifier
GetFrameDetect(v) ==
    /\ cam_pc[v] = "detect"
    /\ \E dets \in CamFrames :
        /\ \A i \in DOMAIN dets :
               (/\ NeedsHistory(dets[i])
                /\ dets[i].track_id \in DOMAIN track_history[camera[v]])
               => track_history[camera[v]][dets[i].track_id].frames < MaxFrames
        /\ \E loc \in {AfterCamDetection(
                          [t_get_frame[v] EXCEPT !.dets = dets, !.i = 1])} :
               CamLocalStep(v, CamDetectionDone(loc), loc)

\* "if track_id not in self.track_history"
HistoryMember(v) ==
    /\ cam_pc[v] = "member"
    /\ CamLocalStep(v,
           IF NotInHistory(t_get_frame[v].dets[t_get_frame[v].i].track_id,
                           track_entries[camera[v]])
           THEN "create" ELSE AfterMember(t_get_frame[v]),
           t_get_frame[v])

\* "self.track_history[track_id] = {'glare_seen': False, 'frames': 0}"
HistoryCreate(v) ==
    /\ cam_pc[v] = "create"
    /\ LET loc == t_get_frame[v]
           track_id == loc.dets[loc.i].track_id
           h == track_heap[camera[v]]
           ents == track_entries[camera[v]]
           o == Alloc(h)
       IN  CamStep(v, AfterMember(loc), loc,
                   [x \in DOMAIN h \cup {o} |->
                       IF x = o THEN [glare_seen |-> FALSE, frames |-> 0]
                       ELSE h[x]],
                   [t \in DOMAIN ents \cup {track_id} |->
                       IF t = track_id THEN o ELSE ents[t]])

\* "self.track_history[track_id]" of lines 107, 109 and 113: the entry of
\* the identifier is looked up
HistoryLookup(v) ==
    /\ cam_pc[v] \in {"latch_lookup", "frames_lookup", "confirm_lookup"}
    /\ LET loc == t_get_frame[v]
       IN  CamLocalStep(v,
               CASE cam_pc[v] = "latch_lookup" -> "latch_store"
                 [] cam_pc[v] = "frames_lookup" -> "frames_load"
                 [] cam_pc[v] = "confirm_lookup" -> "confirm_read",
               [loc EXCEPT
                   !.ref = track_entries[camera[v]][loc.dets[loc.i].track_id]])

\* "[...]['glare_seen'] = True"
LatchStore(v) ==
    /\ cam_pc[v] = "latch_store"
    /\ LET loc == t_get_frame[v]
       IN  CamStep(v, "frames_lookup", [loc EXCEPT !.ref = 0],
                   [track_heap[camera[v]] EXCEPT ![loc.ref].glare_seen = TRUE],
                   track_entries[camera[v]])

\* "[...]['frames'] += 1": the counter is loaded
FramesLoad(v) ==
    /\ cam_pc[v] = "frames_load"
    /\ LET loc == t_get_frame[v]
       IN  CamLocalStep(v, "frames_store",
               [loc EXCEPT !.tmp = track_heap[camera[v]][loc.ref].frames])

\* "[...]['frames'] += 1": the sum is stored
FramesStore(v) ==
    /\ cam_pc[v] = "frames_store"
    /\ LET loc == t_get_frame[v]
       IN  CamStep(v, "confirm_lookup", [loc EXCEPT !.ref = 0, !.tmp = 0],
                   [track_heap[camera[v]] EXCEPT
                       ![loc.ref].frames = loc.tmp + 1],
                   track_entries[camera[v]])

\* "is_confirmed_phone = [...]['glare_seen']", the label of the detection,
\* and the iterations of the loop up to the next detection that has an
\* identifier
ConfirmRead(v) ==
    /\ cam_pc[v] = "confirm_read"
    /\ LET loc == t_get_frame[v]
           d == loc.dets[loc.i]
           is_confirmed_phone ==
               ConfirmedFromMemory(track_heap[camera[v]][loc.ref],
                                   is_shiny_now(d))
           next == AfterCamDetection(
                       [loc EXCEPT
                           !.ref = 0,
                           !.i = @ + 1,
                           !.labels = Append(@, Classify(d, is_confirmed_phone))])
       IN  CamLocalStep(v, CamDetectionDone(next), next)

\* "self.last_frame = jpeg.tobytes()"
StoreLastFrame(v) ==
    /\ cam_pc[v] = "store_last"
    /\ last_frame' = [last_frame EXCEPT ![camera[v]] = <<t_get_frame[v].labels>>]
    /\ cam_pc' = [cam_pc EXCEPT ![v] = "return"]
    /\ UNCHANGED <<track_history, track_entries, track_heap, paused,
                   shiny_ever, cam_refs, cam_call, toggle_pc, t_get_frame>>
    /\ UNCHANGED <<clock, detector_vars, web_vars, loop_vars>>

\* "return self.last_frame"
GetFrameReturn(v) ==
    /\ cam_pc[v] = "return"
    /\ CamReturn(v, last_frame[camera[v]])

\* VideoCamera.get_frame, called by gen on the thread of client v
GetFrame(v) ==
    \/ GetFrameIfPaused(v)
    \/ GetFrameIfLastFrame(v)
    \/ GetFramePaused(v)
    \/ GetFrameRead(v)
    \/ GetFrameRewind(v)
    \/ GetFrameDetect(v)
    \/ HistoryMember(v)
    \/ HistoryCreate(v)
    \/ HistoryLookup(v)
    \/ LatchStore(v)
    \/ FramesLoad(v)
    \/ FramesStore(v)
    \/ ConfirmRead(v)
    \/ StoreLastFrame(v)
    \/ GetFrameReturn(v)

\* the thread of one client of /video_feed of camera.py's application
VideoFeed(v) ==
    \/ VideoFeedGetCamera(v)
    \/ VideoFeedBuild(v)
    \/ VideoFeedLoad(v)
    \/ GetFrame(v)
    \/ VideoFeedClose(v)

\* one client of /video_feed and the requests of /toggle_pause
NextCam == TogglePauseRequest \/ VideoFeed(1)

SpecCam == Init /\ [][NextCam]_vars

\* the clients of /video_feed, each on its thread, and /toggle_pause
NextCamThreads == TogglePauseRequest \/ \E v \in Viewers : VideoFeed(v)

SpecCamThreads == Init /\ [][NextCamThreads]_vars

(***************************************************************************)
(* A session that has been open for seconds.  The detector is picked up   *)
(* at time LateStart with session 1 open since time 0: either matched once *)
(* one tick later and not processed since, or last matched in a frame at   *)
(* LateStart with an accumulated duration around a whole second.           *)
(***************************************************************************)
\* <<last_seen_ts, accumulated>> of session 1 at LateStart
LateSessions ==
    {<<1, 1>>, <<LateStart, 15>>, <<LateStart, 16>>, <<LateStart, 31>>,
     <<LateStart, 32>>}

\* the audit log of a session open since time 0 with the given alert flag
LateLog(alert_sent) ==
    <<[event |-> "usage_start", session_id |-> 1, box |-> BoxP]>>
    \o (IF alert_sent
        THEN <<[event |-> "alert_triggered", session_id |-> 1,
                duration_seconds |-> 0]>>
        ELSE <<>>)

InitLate ==
    /\ clock = LateStart
    /\ \E s \in LateSessions :
           /\ active_sessions =
                  <<[box |-> BoxP, start_ts |-> 0, last_seen_ts |-> s[1],
                     accumulated |-> s[2],
                     alert_sent |-> (s[2] >= alert_threshold_sec)]>>
           /\ now = s[1]
           /\ log = LateLog(s[2] >= alert_threshold_sec)
    /\ next_session_id = 2
    /\ phone_boxes = <<BoxP>>
    /\ mapping = <<1>>
    /\ seen_session_ids = {1}
    /\ raised = FALSE
    /\ at_entry = [active_sessions |-> active_sessions,
                   next_session_id |-> 2, log_len |-> Len(log)]
    /\ current_source = "none"
    /\ pc = [v \in Viewers |-> "idle"]
    /\ t_now = [v \in Viewers |-> 0]
    /\ t_frame = [v \in Viewers |-> <<>>]
    /\ single_viewer = [active_sessions |-> <<>>, next_session_id |-> 1,
                        log |-> <<>>]
    /\ video_camera = None
    /\ camera = [v \in Viewers |-> None]
    /\ toggle_camera = None
    /\ track_history = [c \in Cameras |-> <<>>]
    /\ paused = [c \in Cameras |-> FALSE]
    /\ last_frame = [c \in Cameras |-> <<>>]
    /\ called = 1
    /\ detections = <<>>
    /\ returned = <<>>
    /\ history_at_entry = <<>>
    /\ shiny_before = {}
    /\ shiny_ever = [c \in Cameras |-> {}]
    /\ reads = <<>>
    /\ cam_pc = [v \in Viewers |-> "out"]
    /\ t_get_frame = [v \in Viewers |-> NoCamLocals]
    /\ toggle_pc = "idle"
    /\ track_entries = [c \in Cameras |-> <<>>]
    /\ track_heap = [c \in Cameras |-> <<>>]
    /\ source_type = "none"
    /\ stop_pc = "idle"
    /\ t_success = [v \in Viewers |-> FALSE]
    /\ start_pc = "idle"
    /\ entries = <<>>
    /\ heap = <<>>
    /\ t_detect = [v \in Viewers |-> NoLocals]
    /\ served = [starts |-> 0, stops |-> 0, reads |-> 0]
    /\ raw_box = <<>>
    /\ roi = <<>>
    /\ bad_call = <<>>

TickLate ==
    /\ clock < LateStart + MaxLate
    /\ clock' = clock + 1
    /\ UNCHANGED <<loop_vars, camera_vars, detector_vars, web_vars>>

NextLate == TickLate \/ Detect

SpecLate == InitLate /\ [][NextLate]_vars

(***************************************************************************)
(* The two applications.                                                   *)
(***************************************************************************)
\* src/app.py and src/src/app.py are two programs: a run is a run of one of
\* them, the state of the other staying as constructed
CameraUntouched ==
    /\ video_camera = None
    /\ returned = <<>>
    /\ reads = <<>>
    /\ toggle_pc = "idle"
    /\ \A v \in Viewers : cam_pc[v] = "out"
DetectorAppUntouched ==
    /\ source_type = "none"
    /\ current_source = "none"
    /\ start_pc = "idle"
    /\ \A v \in Viewers : pc[v] = "idle"

NextEither ==
    \/ CameraUntouched /\ NextLoop
    \/ DetectorAppUntouched /\ NextCam

SpecEither == Init /\ [][NextEither]_vars

(***************************************************************************)
(* The clipping of a detection's box in get_frame, on its own: any box of  *)
(* the tracker, in halves of a pixel, on an image of ImageWidth by         *)
(* ImageHeight pixels.                                                     *)
(***************************************************************************)
\* image.shape: w and h
ImageWidth == 2
ImageHeight == 2
\* the largest coordinate the tracker reports, in halves of a pixel
MaxCoord == 6
\* x1, y1, x2, y2 of YOLOProcessor.detect: floats from -1.0 to 3.0
RawCoords == (-2)..MaxCoord
RawBoxes ==
    {b \in RawCoords \X RawCoords \X RawCoords \X RawCoords :
        b[1] <= b[3] /\ b[2] <= b[4]}

\* int(x) of a float given in halves: truncation toward zero
int(x) == IF x >= 0 THEN x \div 2 ELSE -((-x) \div 2)

\* "x1, y1 = max(0, x1), max(0, y1)" and "x2, y2 = min(w, x2), min(h, y2)"
\* after the conversion to int
ClipBox(raw) ==
    <<Max(0, int(raw[1])), Max(0, int(raw[2])),
      Min(ImageWidth, int(raw[3])), Min(ImageHeight, int(raw[4]))>>

\* "if x2 <= x1 or y2 <= y1: continue"
DegenerateStrict(b) == b[3] < b[1] \/ b[4] < b[2]
Degenerate(b) == b[3] <= b[1] \/ b[4] <= b[2]

\* the track memory before the frame: empty, or track 1 latched
ClipHistories == {<<>>, <<[glare_seen |-> TRUE, frames |-> 1]>>}

InitClip ==
    /\ clock = 0
    /\ active_sessions = <<>>
    /\ next_session_id = 1
    /\ log = <<>>
    /\ now = -1
    /\ phone_boxes = <<>>
    /\ mapping = <<>>
    /\ seen_session_ids = {}
    /\ raised = FALSE
    /\ at_entry = [active_sessions |-> <<>>, next_session_id |-> 1, log_len |-> 0]
    /\ current_source = "none"
    /\ pc = [v \in Viewers |-> "idle"]
    /\ t_now = [v \in Viewers |-> 0]
    /\ t_frame = [v \in Viewers |-> <<>>]
    /\ single_viewer = [active_sessions |-> <<>>, next_session_id |-> 1,
                        log |-> <<>>]
    /\ video_camera = 1
    /\ camera = [v \in Viewers |-> IF v = 1 THEN 1 ELSE None]
    /\ toggle_camera = None
    /\ \E history \in ClipHistories :
           /\ track_history = [c \in Cameras |->
                                  IF c = 1 THEN history ELSE <<>>]
           /\ track_entries = [c \in Cameras |->
                                  IF c = 1 THEN [t \in DOMAIN history |-> t]
                                  ELSE <<>>]
    /\ track_heap = track_history
    /\ paused = [c \in Cameras |-> FALSE]
    /\ last_frame = [c \in Cameras |-> <<>>]
    /\ called = 1
    /\ detections = <<>>
    /\ returned = <<>>
    /\ history_at_entry = track_history[1]
    /\ shiny_before = {}
    /\ shiny_ever = [c \in Cameras |-> {}]
    /\ reads = <<>>
    /\ cam_pc = [v \in Viewers |-> IF v = 1 THEN "idle" ELSE "out"]
    /\ t_get_frame = [v \in Viewers |-> NoCamLocals]
    /\ toggle_pc = "idle"
    /\ source_type = "none"
    /\ stop_pc = "idle"
    /\ t_success = [v \in Viewers |-> FALSE]
    /\ start_pc = "idle"
    /\ entries = <<>>
    /\ heap = <<>>
    /\ t_detect = [v \in Viewers |-> NoLocals]
    /\ served = [starts |-> 0, stops |-> 0, reads |-> 0]
    /\ raw_box \in RawBoxes
    /\ roi = <<>>
    /\ bad_call = <<>>

\* get_frame on an image in which the tracker reports one object with the
\* box raw_box: the box is converted and clipped, skipped when it is empty,
\* and the region image[y1:y2, x1:x2] is measured unless it is a person's
GetFrameOneBox ==
    /\ detections = <<>>
    /\ \E d0 \in {x \in CamDetections : x.box_ok} :
        \E b \in {ClipBox(raw_box)} :
        \E d \in {[d0 EXCEPT !.box_ok = ~Degenerate(b)]} :
        \E r \in {ProcessCamDetection(
                      [history |-> track_history[called], labels |-> <<>>],
                      d)} :
           /\ track_history' = [track_history EXCEPT ![called] = r.history]
           /\ track_entries' = [track_entries EXCEPT
                                    ![called] = [t \in DOMAIN r.history |-> t]]
           /\ track_heap' = [track_heap EXCEPT ![called] = r.history]
           /\ last_frame' = [last_frame EXCEPT ![called] = <<r.labels>>]
           /\ returned' = <<r.labels>>
           /\ detections' = <<d>>
           /\ history_at_entry' = track_history[called]
           /\ roi' = IF ~d.box_ok \/ d.label = "person" THEN <<>>
                     ELSE <<b[3] - b[1], b[4] - b[2]>>
           /\ shiny_before' = shiny_ever[called]
           /\ shiny_ever' = [shiny_ever EXCEPT
                                 ![called] = @ \cup ShinyIds(<<d>>)]
    /\ reads' = <<TRUE>>
    /\ UNCHANGED <<paused, cam_refs, called, cam_pc, t_get_frame, toggle_pc,
                   raw_box,
                   source_type, start_pc, stop_pc, t_success, bad_call,
                   entries, heap, t_detect, served>>
    /\ UNCHANGED <<clock, detector_vars, web_vars>>

\* one call of get_frame on the box drawn
SpecClip == InitClip /\ [][GetFrameOneBox]_vars

(***************************************************************************)
(* Properties.  at_entry, now, phone_boxes and mapping describe the last   *)
(* call of detect: a state predicate over them states what one frame did.  *)
(***************************************************************************)
Range(f) == {f[x] : x \in DOMAIN f}
Events(kind, sid) ==
    {k \in DOMAIN log : log[k].event = kind /\ log[k].session_id = sid}
Starts == {k \in DOMAIN log : log[k].event = "usage_start"}
\* the sessions that were open when the last frame began
Before == at_entry.active_sessions
\* the gap of session sid in the last frame
GapOf(sid) == now - Before[sid].last_seen_ts

\* C1: the ids of newly created sessions strictly increase in creation order,
\* so that no id is given twice, the ids of finalized sessions included: the
\* usage_start records carry strictly increasing ids, every session created
\* by a frame has an id above all ids handed out before, and the ids of the
\* open sessions are below next_session_id.
C1_IdsStrictlyIncreasing ==
    /\ \A j, k \in Starts : j < k => log[j].session_id < log[k].session_id
    /\ \A sid \in DOMAIN active_sessions \ DOMAIN Before :
           sid >= at_entry.next_session_id
    /\ \A sid \in DOMAIN active_sessions : sid < next_session_id

\* a session is created after an earlier one was finalized and removed
C1_Witness ==
    \E j, k \in DOMAIN log :
        /\ j < k
        /\ log[j].event = "usage_end"
        /\ log[k].event = "usage_start"
        /\ log[j].session_id < log[k].session_id
        /\ log[k].session_id \in DOMAIN active_sessions

\* C2: frames being processed at non-decreasing times, the accumulated
\* duration of a session never decreases from one frame to the next, and
\* after every frame it is at most the time elapsed since the session's
\* start_ts.
C2_AccumulatedMonotoneBounded ==
    \A sid \in DOMAIN active_sessions :
        /\ sid \in DOMAIN Before =>
               active_sessions[sid].accumulated >= Before[sid].accumulated
        /\ active_sessions[sid].accumulated
               <= now - active_sessions[sid].start_ts

\* a session has been matched after a gap beyond the tolerance and again
\* within it: its accumulated duration is positive and below the elapsed time
C2_Witness ==
    \E sid \in DOMAIN active_sessions \cap DOMAIN Before :
        /\ active_sessions[sid].accumulated > Before[sid].accumulated
        /\ active_sessions[sid].accumulated
               < now - active_sessions[sid].start_ts

\* C3: at most one alert_triggered record is emitted per session id, and
\* alert_sent of a session goes from false to true only, never back.
C3_AlertOnce ==
    /\ \A sid \in 1..MaxId : Cardinality(Events("alert_triggered", sid)) <= 1
    /\ \A sid \in DOMAIN active_sessions \cap DOMAIN Before :
           Before[sid].alert_sent => active_sessions[sid].alert_sent

\* a session whose alert was sent in an earlier frame is matched again, with
\* its accumulated duration still growing above the threshold
C3_Witness ==
    \E sid \in DOMAIN active_sessions \cap DOMAIN Before :
        /\ Before[sid].alert_sent
        /\ active_sessions[sid].accumulated > Before[sid].accumulated
        /\ Cardinality(Events("alert_triggered", sid)) = 1

\* C4: in the mapping of one call of _match_boxes_to_sessions no session id
\* is the value of two detection indices, and every detection index has one
\* value, a session that was open or None.
C4_MappingInjective ==
    /\ DOMAIN mapping = 1..Len(phone_boxes)
    /\ \A i \in DOMAIN mapping : mapping[i] \in DOMAIN Before \cup {None}
    /\ \A i, j \in DOMAIN mapping :
           i # j /\ mapping[i] # None => mapping[i] # mapping[j]

\* two detections passed the gate against the same open session, which went
\* to one of them only
C4_Witness ==
    \E i, j \in DOMAIN mapping :
        /\ i # j
        /\ mapping[i] # None
        /\ Eligible(phone_boxes[j], Before[mapping[i]].box)
        /\ mapping[j] = None

\* the id the loop over phone_boxes gives to detection j when it is unmatched
NewSidOf(j) ==
    at_entry.next_session_id
        + Cardinality({k \in 1..(j - 1) : mapping[k] = None})
\* detection j was reported unmatched and started a session of its own
StartsNewSession(j) ==
    /\ mapping[j] = None
    /\ NewSidOf(j) \in DOMAIN active_sessions \ DOMAIN Before
    /\ active_sessions[NewSidOf(j)] =
           [box |-> phone_boxes[j], start_ts |-> now, last_seen_ts |-> now,
            accumulated |-> 0, alert_sent |-> FALSE]
\* detection i passes the three gates against open session sid
PassesGate(i, sid) == Eligible(phone_boxes[i], Before[sid].box)
IouWith(i, sid) == iou(phone_boxes[i], Before[sid].box)

\* C5 as stated: when two detections of a frame both pass the gate against
\* the same open session, the one with the higher IoU gets the session,
\* whatever their order, and the other is unmatched and starts a new session.
C5_HigherIouWins ==
    \A i, j \in DOMAIN mapping : \A sid \in DOMAIN Before :
        /\ i # j
        /\ PassesGate(i, sid)
        /\ PassesGate(j, sid)
        /\ FracLess(IouWith(j, sid), IouWith(i, sid))
        => mapping[i] = sid /\ StartsNewSession(j)

\* C5 amended: when two detections of a frame both pass the gate against the
\* same open session and against no other, and no third detection passes
\* the gate against it, the session goes to the detection that comes first
\* in the input, whichever has the higher IoU, and the other detection is
\* unmatched and starts a new session.
C5_FirstInInputWins ==
    \A i, j \in DOMAIN mapping : \A sid \in DOMAIN Before :
        /\ i < j
        /\ PassesGate(i, sid)
        /\ PassesGate(j, sid)
        /\ \A other \in DOMAIN Before \ {sid} :
               ~PassesGate(i, other) /\ ~PassesGate(j, other)
        /\ \A k \in DOMAIN mapping \ {i, j} : ~PassesGate(k, sid)
        => mapping[i] = sid /\ StartsNewSession(j)

\* the later detection had the strictly higher IoU and still the earlier one
\* got the session
C5_Witness ==
    \E i, j \in DOMAIN mapping : \E sid \in DOMAIN Before :
        /\ i < j
        /\ PassesGate(i, sid)
        /\ PassesGate(j, sid)
        /\ \A other \in DOMAIN Before \ {sid} :
               ~PassesGate(i, other) /\ ~PassesGate(j, other)
        /\ FracLess(IouWith(i, sid), IouWith(j, sid))
        /\ mapping[i] = sid
        /\ StartsNewSession(j)

\* C6 as stated: a session that went undetected for longer than
\* gap_tolerance is ended for good: no detection of a frame is attributed to
\* a session whose last match lies more than gap_tolerance before the frame,
\* whatever the spacing of the frames.
C6_NoMatchAfterLongGap ==
    \A i \in DOMAIN mapping :
        mapping[i] # None => GapOf(mapping[i]) <= gap_tolerance_sec

\* C7: a matched session whose gap equals gap_tolerance gains exactly the
\* gap, one whose gap is beyond gap_tolerance keeps its accumulated
\* duration; an unmatched open session is finalized (removed, with a
\* usage_end record) in a frame exactly when its gap in that frame is beyond
\* gap_tolerance.
C7_GapBoundary ==
    \A sid \in DOMAIN Before :
        IF sid \in Range(mapping)
        THEN /\ sid \in DOMAIN active_sessions
             /\ GapOf(sid) = gap_tolerance_sec =>
                    active_sessions[sid].accumulated
                        = Before[sid].accumulated + GapOf(sid)
             /\ GapOf(sid) > gap_tolerance_sec =>
                    active_sessions[sid].accumulated = Before[sid].accumulated
        ELSE /\ sid \notin DOMAIN active_sessions
                    <=> GapOf(sid) > gap_tolerance_sec
             /\ (\E k \in Events("usage_end", sid) : k > at_entry.log_len)
                    <=> GapOf(sid) > gap_tolerance_sec

\* one frame matched a session at a gap of exactly gap_tolerance, a session
\* that an earlier frame had matched at a gap beyond it without counting the
\* gap, and finalized another session, unmatched, whose gap was beyond it
C7_Witness ==
    /\ \E sid \in DOMAIN Before \cap Range(mapping) :
           /\ GapOf(sid) = gap_tolerance_sec
           /\ Before[sid].accumulated
                  < Before[sid].last_seen_ts - Before[sid].start_ts
           /\ active_sessions[sid].accumulated
                  = Before[sid].accumulated + gap_tolerance_sec
    /\ \E sid \in DOMAIN Before \ Range(mapping) :
           /\ GapOf(sid) > gap_tolerance_sec
           /\ sid \notin DOMAIN active_sessions
           /\ Cardinality(Events("usage_end", sid)) = 1

\* what the last frame gives when every write of the audit log succeeds
WithWorkingSink ==
    detect(Before, at_entry.next_session_id, <<>>, phone_boxes, now, 0)

\* C8 as stated: a failed write of the audit log does not abort the frame:
\* detect returns, the session store ends the frame as if the write had
\* succeeded, and a single record is lost.
C8_FailedWriteDoesNotAbort ==
    /\ ~raised
    /\ active_sessions = WithWorkingSink.sessions
    /\ next_session_id = WithWorkingSink.next
    /\ Len(log) - at_entry.log_len >= Len(WithWorkingSink.log) - 1

\* C9 as stated: at no time are two threads inside the code that mutates
\* the session store, however many /video_feed requests are being served.
C9_SingleWriter ==
    Cardinality({v \in Viewers : InDetect(v)}) <= 1

\* C10 as stated: viewers never change pipeline state: with any number of
\* viewers that connect, stall or disconnect, the session store and the
\* audit log are, whenever no frame is being processed, what a single
\* viewer pulling the same frames one after the other gives.
C10_SameAsSingleViewer ==
    (\A v \in Viewers : ~InDetect(v)) =>
        /\ active_sessions = single_viewer.active_sessions
        /\ next_session_id = single_viewer.next_session_id
        /\ log = single_viewer.log

\* the records the last frame appended to the audit log
EmittedNow(kind, sid) == {k \in Events(kind, sid) : k > at_entry.log_len}
\* the last frame is the first one after which sid's accumulated duration is
\* at or above the alert threshold
ReachedThresholdNow(sid) ==
    /\ active_sessions[sid].accumulated >= alert_threshold_sec
    /\ sid \in DOMAIN Before => Before[sid].accumulated < alert_threshold_sec

\* C11: in the first frame after which a session's accumulated duration is
\* at or above alert_threshold, one alert_triggered record is emitted for it
\* in that frame and alert_sent becomes true; in every other frame, however
\* much accumulated has grown, no alert_triggered is emitted for it.
C11_AlertAtFirstCrossing ==
    \A sid \in DOMAIN active_sessions :
        /\ ReachedThresholdNow(sid) =>
               /\ Cardinality(EmittedNow("alert_triggered", sid)) = 1
               /\ active_sessions[sid].alert_sent
        /\ ~ReachedThresholdNow(sid) => EmittedNow("alert_triggered", sid) = {}
        /\ active_sessions[sid].accumulated >= alert_threshold_sec =>
               active_sessions[sid].alert_sent

\* a frame took a session's accumulated duration to exactly the threshold
\* and the alert was emitted in it
C11_Witness ==
    \E sid \in DOMAIN active_sessions :
        /\ ReachedThresholdNow(sid)
        /\ active_sessions[sid].accumulated = alert_threshold_sec
        /\ EmittedNow("alert_triggered", sid) # {}

\* detection i of the last frame reached the filters: its box was not empty
\* and it was no person
Evaluated(i) == detections[i].box_ok /\ detections[i].label # "person"
\* self.track_history of the camera of the last call of get_frame
Memory == track_history[called]
\* the label get_frame drew for detection i of the last frame
LabelOf(i) == returned[1][i]
\* the labels of the specular/smooth class (phone)
PhoneLabels == {"G-Mem", "L-Ent"}
\* glare ratio > 0.005 in the region of detection i
GlareNow(i) == detections[i].glare * 1000 > 5 * RoiPixels
\* entropy > 5.5 in the region of detection i
EntropyHigh(i) == detections[i].entropy > EntropyThreshold

\* C12: for every identifier other than -1, once glare_seen of its entry in
\* track_history is true, it is true after every later call of get_frame,
\* whatever the later frames measure for it.
C12_LatchStays ==
    \A id \in DOMAIN history_at_entry :
        history_at_entry[id].glare_seen =>
            id \in DOMAIN Memory /\ Memory[id].glare_seen

\* an identifier whose latch was set is evaluated again in a frame without
\* glare and with high entropy, and its latch is still set
C12_Witness ==
    \E i \in DOMAIN detections :
        /\ Evaluated(i)
        /\ detections[i].track_id \in DOMAIN history_at_entry
        /\ history_at_entry[detections[i].track_id].glare_seen
        /\ ~GlareNow(i)
        /\ EntropyHigh(i)
        /\ Memory[detections[i].track_id].glare_seen

\* C13: once an identifier has been evaluated in a frame with glare ratio
\* above 0.005, every later evaluation of it is classified specular/smooth
\* (phone), for any entropy, also when the later frame shows no glare.
C13_LatchOverridesEntropy ==
    \A i \in DOMAIN detections :
        Evaluated(i) /\ detections[i].track_id \in shiny_before
            => LabelOf(i) \in PhoneLabels

\* an identifier evaluated with glare earlier is evaluated with no glare and
\* entropy above 5.5 and is labelled phone from memory
C13_Witness ==
    \E i \in DOMAIN detections :
        /\ Evaluated(i)
        /\ detections[i].track_id \in shiny_before
        /\ ~GlareNow(i)
        /\ EntropyHigh(i)
        /\ LabelOf(i) = "G-Mem"

\* glare confirmed for detection i: the identifier's latch after the frame's
\* update when it has an identifier, the instantaneous flag otherwise
GlareConfirmed(i) ==
    IF detections[i].track_id # NoTrack
    THEN Memory[detections[i].track_id].glare_seen
    ELSE GlareNow(i)

\* C14: every evaluated region is classified matte/textured (calculator)
\* exactly when its entropy is strictly above 5.5 and glare is not
\* confirmed, and specular/smooth (phone) in every other case.
C14_DecisionRule ==
    \A i \in DOMAIN detections :
        Evaluated(i) =>
            /\ LabelOf(i) = "Calc" <=> EntropyHigh(i) /\ ~GlareConfirmed(i)
            /\ LabelOf(i) # "Calc" => LabelOf(i) \in PhoneLabels

\* one frame held a region of entropy 5.6 without glare, classified
\* calculator, and a region of entropy exactly 5.5 without glare, classified
\* phone
C14_Witness ==
    \E i, j \in DOMAIN detections :
        /\ Evaluated(i) /\ Evaluated(j)
        /\ EntropyHigh(i) /\ ~GlareNow(i) /\ LabelOf(i) = "Calc"
        /\ detections[j].entropy = EntropyThreshold
        /\ ~GlareNow(j)
        /\ LabelOf(j) = "L-Ent"

\* the sessions claimed by the detections before detection i
ClaimedBefore(i) == {mapping[k] : k \in 1..(i - 1)} \ {None}
\* IoU >= 0.30, relative area change <= 0.40 and centroid distance <= 80
\* between a detection and the box of a session
Qualifies(new_box, old_box) ==
    LET new_area == box_area(new_box)
        old_area == box_area(old_box)
        dx == box_center(new_box)[1] - box_center(old_box)[1]
        dy == box_center(new_box)[2] - box_center(old_box)[2]
    IN  /\ 10 * iou(new_box, old_box)[1] >= 3 * iou(new_box, old_box)[2]
        /\ 10 * Abs(new_area - old_area) <= 4 * old_area
        /\ dx * dx + dy * dy <= 160 * 160
\* the sessions detection i may get in the greedy reference
Candidates(i) ==
    {sid \in DOMAIN Before \ ClaimedBefore(i) :
        Qualifies(phone_boxes[i], Before[sid].box)}

\* C15: the mapping of _match_boxes_to_sessions is the greedy reference:
\* taking the detections in input order, each gets a session of maximum IoU
\* among the sessions no earlier detection of the frame claimed and that
\* satisfy IoU >= 0.30, relative area change <= 0.40 and centroid distance
\* <= 80, or None when no session qualifies; both inputs may be empty.
C15_GreedyReference ==
    /\ DOMAIN mapping = 1..Len(phone_boxes)
    /\ \A i \in DOMAIN mapping :
           IF Candidates(i) = {}
           THEN mapping[i] = None
           ELSE /\ mapping[i] \in Candidates(i)
                /\ \A sid \in Candidates(i) :
                       ~FracLess(IouWith(i, mapping[i]), IouWith(i, sid))

\* one detection had two candidates and got the later one in the store, of
\* higher IoU, and another detection got a session at an IoU of exactly 0.30
C15_Witness ==
    /\ \E i \in DOMAIN mapping : \E s1, s2 \in Candidates(i) :
           /\ s1 < s2
           /\ FracLess(IouWith(i, s1), IouWith(i, s2))
           /\ mapping[i] = s2
    /\ \E j \in DOMAIN mapping :
           /\ mapping[j] # None
           /\ 10 * IouWith(j, mapping[j])[1] = 3 * IouWith(j, mapping[j])[2]

\* C16: a session matched by a detection of a frame has last_seen_ts = now
\* after the frame, also when its gap was beyond gap_tolerance, and the
\* frame neither finalizes nor removes it.
C16_MatchedIsRefreshed ==
    \A sid \in DOMAIN Before \cap Range(mapping) :
        /\ sid \in DOMAIN active_sessions
        /\ active_sessions[sid].last_seen_ts = now
        /\ EmittedNow("usage_end", sid) = {}

\* a session was matched after a gap beyond the tolerance
C16_Witness ==
    \E sid \in DOMAIN Before \cap Range(mapping) :
        /\ GapOf(sid) > gap_tolerance_sec
        /\ sid \in DOMAIN active_sessions
        /\ active_sessions[sid].last_seen_ts = now

\* C17: an open session that no detection of a frame matched and whose gap
\* is at most gap_tolerance is left unchanged by the frame: its five fields
\* keep their values, it stays in the store, and no event is emitted for it.
C17_UnmatchedWithinToleranceUntouched ==
    \A sid \in DOMAIN Before \ Range(mapping) :
        GapOf(sid) <= gap_tolerance_sec =>
            /\ sid \in DOMAIN active_sessions
            /\ active_sessions[sid] = Before[sid]
            /\ \A k \in DOMAIN log :
                   k > at_entry.log_len => log[k].session_id # sid

\* a session with a positive accumulated duration went unmatched in a frame
\* at a gap of exactly gap_tolerance, while the frame wrote other events
C17_Witness ==
    \E sid \in DOMAIN Before \ Range(mapping) :
        /\ GapOf(sid) = gap_tolerance_sec
        /\ Before[sid].accumulated > 0
        /\ sid \in DOMAIN active_sessions
        /\ Len(log) > at_entry.log_len

\* sec is ticks truncated toward zero to whole seconds
IsTruncation(sec, ticks) ==
    IF ticks >= 0
    THEN sec * TicksPerSecond <= ticks /\ ticks < (sec + 1) * TicksPerSecond
    ELSE ticks <= sec * TicksPerSecond /\ (sec - 1) * TicksPerSecond < ticks

\* C18: a session leaves the store only through finalization: a session
\* that was open when a frame began and is not after it has a usage_end
\* record of that frame, carrying its accumulated duration in whole seconds
\* and its alert flag; the record is written before the removal, so that a
\* write that fails leaves no session removed without its record.
C18_RemovedOnlyAfterUsageEnd ==
    \A sid \in DOMAIN Before \ DOMAIN active_sessions :
        /\ Cardinality(EmittedNow("usage_end", sid)) = 1
        /\ \A k \in EmittedNow("usage_end", sid) :
               /\ IsTruncation(log[k].duration_seconds,
                               Before[sid].accumulated)
               /\ log[k].alert_triggered = Before[sid].alert_sent

\* a frame finalized and removed a session
C18_Witness ==
    \E sid \in DOMAIN Before \ DOMAIN active_sessions :
        /\ EmittedNow("usage_end", sid) # {}
        /\ ~raised

\* C19: the duration_seconds of a usage_end record is the accumulated
\* duration the session had at its last match, truncated to whole seconds:
\* the time it spent undetected before the finalization is not counted.
C19_DurationIsAccumulatedTruncated ==
    \A sid \in DOMAIN Before : \A k \in EmittedNow("usage_end", sid) :
        /\ IsTruncation(log[k].duration_seconds, Before[sid].accumulated)
        /\ log[k].duration_seconds * TicksPerSecond
               <= Before[sid].last_seen_ts - Before[sid].start_ts

\* a session with 31 ticks (1.9375 s) accumulated is finalized more than
\* 5 s after its start and more than the tolerance after its last match, and
\* reports 1
C19_Witness ==
    \E sid \in DOMAIN Before : \E k \in EmittedNow("usage_end", sid) :
        /\ Before[sid].accumulated = 2 * TicksPerSecond - 1
        /\ now - Before[sid].start_ts > 5 * TicksPerSecond
        /\ GapOf(sid) > gap_tolerance_sec
        /\ log[k].duration_seconds = 1

\* the identifiers of the detections the last frame evaluated
EvaluatedIds ==
    {detections[i].track_id : i \in {j \in DOMAIN detections : Evaluated(j)}}

\* C20: a detection without identifier (track_id = -1) is classified from
\* the glare flag of its own frame only, and evaluating it leaves the track
\* memory as it was: -1 never has an entry, and a frame creates or changes
\* the entries of the identifiers it evaluates only (the memory after a
\* call is compared with the memory when the call began).
C20_NoIdentifierNoMemory ==
    /\ NoTrack \notin DOMAIN Memory
    /\ \A i \in DOMAIN detections :
           Evaluated(i) /\ detections[i].track_id = NoTrack =>
               /\ LabelOf(i) = "Calc" <=> EntropyHigh(i) /\ ~GlareNow(i)
               /\ LabelOf(i) # "Calc" => LabelOf(i) \in PhoneLabels
    /\ CamIdle =>
           \A t \in DOMAIN Memory \ EvaluatedIds :
               t \in DOMAIN history_at_entry
                   /\ Memory[t] = history_at_entry[t]
    /\ DOMAIN history_at_entry \subseteq DOMAIN Memory

\* with a latched track in memory, a frame evaluated only detections without
\* identifier, one with glare and one of high entropy without glare that
\* was classified calculator, and the memory is what it was
C20_Witness ==
    /\ \E t \in DOMAIN history_at_entry : history_at_entry[t].glare_seen
    /\ EvaluatedIds = {NoTrack}
    /\ \E i, j \in DOMAIN detections :
           /\ Evaluated(i) /\ GlareNow(i) /\ LabelOf(i) \in PhoneLabels
           /\ Evaluated(j) /\ ~GlareNow(j) /\ LabelOf(j) = "Calc"
    /\ Memory = history_at_entry

\* a read of the loop of generate_frames failed and the thread leaves the
\* test "if not success"
LeavesFailedRead(v) ==
    pc[v] = "branch" /\ ~t_success[v] /\ pc'[v] # "branch"

\* the step generate_frames takes after a failed read: the rewind of a
\* video or the end of the loop, the detector being left as it is
AfterFailedRead ==
    \A v \in Viewers :
        LeavesFailedRead(v) =>
            /\ pc'[v] \in {"set", "idle"}
            /\ UNCHANGED <<active_sessions, next_session_id, log,
                           single_viewer>>

\* C21 (as stated): a call of get_frame in which a read failed leaves the
\* track memory as it was, and generate_frames enters detect only with a
\* frame.
C21_AnyFailedReadSkipsUpdate ==
    /\ \A v \in Viewers : InDetect(v) => t_success[v]
    /\ (\E i \in DOMAIN reads : ~reads[i]) =>
           Memory = history_at_entry

\* C21: when no frame is obtained, the per-frame update does not run.  In
\* generate_frames a failed read is followed by the rewind or by the end of
\* the loop, never by detect, and the session store and the audit log are
\* unchanged; detect is only entered with a frame.  In get_frame the update
\* is skipped, None returned and the track memory unchanged, when the read
\* repeated after the rewind fails as well.
C21_NoFrameNoUpdate ==
    /\ [](\A v \in Viewers : InDetect(v) => t_success[v])
    /\ [](reads # <<>> /\ ~reads[Len(reads)] =>
              returned = <<>> /\ Memory = history_at_entry)
    /\ [][AfterFailedRead]_vars

\* a session is open, a read of a looping video has failed and the thread
\* is about to rewind the source
C21_Witness ==
    \E v \in Viewers :
        /\ ~t_success[v]
        /\ pc[v] = "set"
        /\ source_type = "video"
        /\ active_sessions # <<>>

\* C22: the region of a detection is never measured empty.  After the
\* conversion to int and the clipping to the image, a box with x2 <= x1 or
\* y2 <= y1 is skipped: no region is cut out for it, it gets no label, and
\* the track memory is what it was; a region that is measured has a
\* positive width and a positive height.
C22_EmptyRegionSkipped ==
    detections # <<>> =>
        LET b == ClipBox(raw_box)
        IN  /\ roi # <<>> => roi[1] > 0 /\ roi[2] > 0
            /\ b[3] <= b[1] \/ b[4] <= b[2] =>
                   /\ roi = <<>>
                   /\ returned = <<<<"skip">>>>
                   /\ Memory = history_at_entry

\* a box of positive width and height that lies in one pixel column, so
\* that it is empty after the conversion, carries the identifier of a
\* latched track and was skipped
C22_Witness ==
    /\ detections # <<>>
    /\ raw_box[1] >= 0 /\ raw_box[3] <= 2 * ImageWidth
    /\ raw_box[1] < raw_box[3]
    /\ raw_box[2] < raw_box[4]
    /\ int(raw_box[1]) = int(raw_box[3])
    /\ detections[1].track_id \in DOMAIN Memory
    /\ returned = <<<<"skip">>>>
    /\ roi = <<>>

\* the ids that have an audit record or an open session
KnownIds == {log[k].session_id : k \in DOMAIN log} \cup DOMAIN active_sessions
\* the positions of the audit records of session sid
EventsOf(sid) == {k \in DOMAIN log : log[k].session_id = sid}

\* C23: for every session id the audit records are usage_start, then at
\* most one alert_triggered, then at most one usage_end: there is exactly
\* one usage_start and it is the first record of the id, and the usage_end
\* is the last record of the id.
C23_EventOrder ==
    \A sid \in KnownIds :
        /\ Cardinality(Events("usage_start", sid)) = 1
        /\ Cardinality(Events("alert_triggered", sid)) <= 1
        /\ Cardinality(Events("usage_end", sid)) <= 1
        /\ \A s \in Events("usage_start", sid) : \A k \in EventsOf(sid) : s <= k
        /\ \A e \in Events("usage_end", sid) : \A k \in EventsOf(sid) : k <= e

\* a session has its three records in order, with a record of another
\* session between them, and that other session was finalized before
C23_Witness ==
    \E sid \in KnownIds :
        \E s \in Events("usage_start", sid) :
        \E a \in Events("alert_triggered", sid) :
        \E e \in Events("usage_end", sid) :
            /\ s < a /\ a < e
            /\ \E k \in DOMAIN log :
                   /\ s < k /\ k < e
                   /\ log[k].session_id # sid
                   /\ log[k].event = "usage_end"

\* C24: the alert_triggered flag of a usage_end record is true exactly when
\* an alert_triggered record of the same id precedes it, and exactly when the
\* accumulated duration of the session at its finalization is at or above
\* the alert threshold; at the end of every frame each open session has
\* alert_sent = (accumulated >= alert_threshold).
C24_AlertFlagIsThreshold ==
    /\ \A sid \in DOMAIN active_sessions :
           active_sessions[sid].alert_sent
               <=> active_sessions[sid].accumulated >= alert_threshold_sec
    /\ \A k \in DOMAIN log :
           log[k].event = "usage_end" =>
               (log[k].alert_triggered
                    <=> \E j \in 1..(k - 1) :
                            /\ log[j].event = "alert_triggered"
                            /\ log[j].session_id = log[k].session_id)
    /\ \A sid \in DOMAIN Before : \A k \in EmittedNow("usage_end", sid) :
           log[k].alert_triggered
               <=> Before[sid].accumulated >= alert_threshold_sec

\* a session that had reached the threshold is finalized with the flag set,
\* after another one was finalized below the threshold with the flag clear
C24_Witness ==
    /\ \E sid \in DOMAIN Before : \E k \in EmittedNow("usage_end", sid) :
           /\ log[k].alert_triggered
           /\ Before[sid].accumulated >= alert_threshold_sec
    /\ \E k \in DOMAIN log :
           log[k].event = "usage_end" /\ ~log[k].alert_triggered

\* the open sessions the last frame matched or created
SeenNow ==
    {sid \in DOMAIN active_sessions : active_sessions[sid].last_seen_ts = now}

\* C25: a session created in a frame is never matched to another detection
\* of that frame.  The mapping names sessions that were open before the
\* frame only, names each of them once, every unmatched detection creates a
\* session of its own, and at the end of the frame the sessions with
\* last_seen_ts = now are as many as the phone detections of the frame.
C25_OneSessionPerDetection ==
    now >= 0 /\ ~raised =>
        /\ Cardinality(SeenNow) = Len(phone_boxes)
        /\ \A i \in DOMAIN mapping :
               mapping[i] # None => mapping[i] \in DOMAIN Before
        /\ \A i, j \in DOMAIN mapping :
               i # j /\ mapping[i] # None => mapping[i] # mapping[j]
        /\ Cardinality(DOMAIN active_sessions \ DOMAIN Before)
               = Cardinality({i \in DOMAIN mapping : mapping[i] = None})

\* a frame holds the same box twice: the first detection is matched to the
\* open session of that box, the second one starts a session, and both
\* sessions carry the box and the time of the frame
C25_Witness ==
    /\ phone_boxes = <<BoxP, BoxP>>
    /\ mapping[1] # None
    /\ mapping[2] = None
    /\ Cardinality(SeenNow) = 2
    /\ \A sid \in SeenNow : active_sessions[sid].box = BoxP

\* session sid is open although the time is more than gap_tolerance past
\* its last match
OpenBeyondTolerance(sid) ==
    /\ sid \in DOMAIN active_sessions
    /\ clock > active_sessions[sid].last_seen_ts + gap_tolerance_sec

\* a frame that leaves a session unmatched more than gap_tolerance after its
\* last match finalizes it
EndsAtFirstFrameBeyondTolerance ==
    \A sid \in DOMAIN Before \ Range(mapping) :
        now > Before[sid].last_seen_ts + gap_tolerance_sec =>
            /\ sid \notin DOMAIN active_sessions
            /\ Cardinality(EmittedNow("usage_end", sid)) = 1

\* C26: while frames keep being processed, a session that is not matched
\* again is finalized, with its usage_end written and its record removed,
\* by the first frame processed more than gap_tolerance after its last
\* match: every frame that leaves it unmatched beyond the tolerance
\* finalizes it, and a session that is open with the time beyond the
\* tolerance of its last match is eventually finalized or matched again.
C26_UnmatchedEventuallyEnds ==
    /\ []EndsAtFirstFrameBeyondTolerance
    /\ \A sid \in 1..MaxId :
           OpenBeyondTolerance(sid) ~> ~OpenBeyondTolerance(sid)

\* a session was left unmatched by a frame within the tolerance, which kept
\* it, and the next frame, the first one beyond the tolerance, finalized it
C26_Witness ==
    \E sid \in DOMAIN Before \ Range(mapping) :
        /\ now = Before[sid].last_seen_ts + gap_tolerance_sec + 1
        /\ \E other \in DOMAIN Before :
               /\ Before[other].last_seen_ts > Before[sid].last_seen_ts
               /\ Before[other].last_seen_ts
                      <= Before[sid].last_seen_ts + gap_tolerance_sec
        /\ sid \notin DOMAIN active_sessions
        /\ EmittedNow("usage_end", sid) # {}

\* C27: whatever the interleaving of stop_detection and start_detection
\* with the loops of generate_frames, no loop calls isOpened, read or set on
\* a source that is None or released, and no loop ends in an AttributeError.
C27_NoCallOnStoppedSource ==
    /\ bad_call = <<>>
    /\ \A v \in Viewers : pc[v] # "AttributeError"
====
